---- MODULE Spec2Model ----
(***************************************************************************)
(* The authoritative real-time session server of the shared tabletop       *)
(* (src/server.js): the in-memory battlemap state loaded from the store,   *)
(* the socket handlers that mutate it (the mutation gateway), and the      *)
(* presence bookkeeping of connections, active users and ghosts.           *)
(*                                                                         *)
(* Every socket handler is one action that runs to completion (Node's      *)
(* single-threaded event loop).  What a handler sends is recorded in       *)
(* ack / emitted / scheduled, which always describe the LAST handler run.  *)
(*                                                                         *)
(* Ids produced by randomUUID() are drawn from the counter nextUuid.  The  *)
(* value 0 stands for a null/absent id, NULL for a null/absent string.     *)
(* JSON numbers are modelled by integers; a payload field that is absent   *)
(* or not of the expected type is a field missing from the record.         *)
(***************************************************************************)
EXTENDS Integers, Sequences, FiniteSets, TLC

VARIABLES
    order,                          \* battlemapState.order
    maps,                           \* battlemapState.maps : id -> battlemap
    activeBattlemapId,              \* battlemapState.activeBattlemapId
    supportsBattlemapImages,        \* schema capability flags set by the load
    supportsBattlemapActiveImageId,
    supportsBattlemapCoverImageId,
    users,                          \* users : socket id / token id -> user
    usersOrder,                     \* the keys of users in Map insertion order
    disconnectedUsers,              \* disconnectedUsers : persistent id -> ghost
    displayModeUsers,               \* displayModeUsers : socket id -> userData
    covers,                         \* covers : the legacy session-wide cover map
    sockets,                        \* per-connection closure state
    nextUuid,                       \* the next value randomUUID() returns
    nextCoverId,                    \* the next suffix generateCoverId() uses
    nextTokenId,                    \* the next suffix add-token uses
    req,                            \* the event the last handler served
    ack,                            \* what it passed to the ack callback
    emitted,                        \* the messages it emitted, in order
    scheduled,                      \* the background tasks it scheduled
    background,                     \* the background tasks still in flight
    supabase,                       \* the rows the store holds, by table and id
    response,                       \* what the store answered to the last request
    phase                           \* the process: "loading", "serving" or "exit 1"

bmVars   == <<order, maps, activeBattlemapId>>
flagVars == <<supportsBattlemapImages, supportsBattlemapActiveImageId,
              supportsBattlemapCoverImageId>>
presenceVars == <<users, usersOrder, disconnectedUsers, displayModeUsers, covers>>
idVars   == <<nextUuid, nextCoverId, nextTokenId>>
outVars  == <<req, ack, emitted, scheduled>>
storeVars == <<background, supabase, response>>
vars     == <<bmVars, flagVars, presenceVars, sockets, idVars, outVars, storeVars,
              phase>>

----------------------------------------------------------------------------
(* Values *)

NULL == "null"

DEFAULT_BATTLEMAP_NAME     == "Default Battlemap"
DEFAULT_BATTLEMAP_MAP_PATH == "/maps/Training Ground.jpg"
DEFAULT_COVER_COLOR        == "#808080"
DEFAULT_TOKEN_SIZE         == "medium"
VALID_TOKEN_SIZES == {"tiny", "small", "medium", "large", "huge", "gargantuan"}

\* DEFAULT_SETTINGS
DefaultGridScale   == 1
DefaultGridOffsetX == 0
DefaultGridOffsetY == 0

\* createDefaultGridData(): the synthetic evenly spaced grid, as one token
DefaultGridData == "default-grid"

\* Bounds of the model
MaxUuid     == 2    \* ids randomUUID() ever returns
MaxSockets  == 2    \* connections ever opened
MaxCovers   == 1    \* covers generateCoverId() ever names

Range(f) == {f[i] : i \in DOMAIN f}

Min(a, b) == IF a < b THEN a ELSE b
Max(a, b) == IF a > b THEN a ELSE b

\* Map without one key / with one key set
Without(f, k) == [x \in DOMAIN f \ {k} |-> f[x]]
With(f, k, v) == [x \in DOMAIN f \cup {k} |-> IF x = k THEN v ELSE f[x]]
EmptyMap      == <<>>

RECURSIVE FilterSeq(_, _)
\* Array.prototype.filter with the predicate "element \in keep"
FilterSeq(seq, keep) ==
    IF seq = <<>> THEN <<>>
    ELSE IF Head(seq) \in keep
         THEN <<Head(seq)>> \o FilterSeq(Tail(seq), keep)
         ELSE FilterSeq(Tail(seq), keep)

----------------------------------------------------------------------------
(* Pure helpers of server.js *)

sanitizeTokenSize(value) ==
    IF value \in VALID_TOKEN_SIZES THEN value ELSE DEFAULT_TOKEN_SIZE

\* A grid-data value is valid when it is one of the grid tokens; anything
\* else (NULL: missing or not an object) falls back to the default grid.
GridDatas == {DefaultGridData, "grid-A"}
sanitizeGridData(input) ==
    IF input \in GridDatas THEN input ELSE DefaultGridData

cloneGridData == sanitizeGridData(DefaultGridData)

clampValue(value, min, max) == Min(Max(value, min), max)

\* typeof input.f === 'number' ? input.f : 0
NumberOrZero(input, f) == IF f \in DOMAIN input THEN input[f] ELSE 0

sanitizeCoverBroken(input) ==
    [id     |-> input.id,
     width  |-> clampValue(NumberOrZero(input, "width"), 0, 100),
     height |-> clampValue(NumberOrZero(input, "height"), 0, 100),
     x      |-> clampValue(NumberOrZero(input, "x"), 0, 100),
     y      |-> clampValue(NumberOrZero(input, "y"), 0, 100),
     color  |-> IF "color" \in DOMAIN input /\ input.color # ""
                THEN input.color ELSE DEFAULT_COVER_COLOR]

sanitizeCover(input) ==
    LET width  == clampValue(NumberOrZero(input, "width"), 0, 100)
        height == clampValue(NumberOrZero(input, "height"), 0, 100)
        maxX   == 100 - width
        maxY   == 100 - height
    IN  [id     |-> input.id,
         width  |-> width,
         height |-> height,
         x      |-> clampValue(NumberOrZero(input, "x"), 0, maxX),
         y      |-> clampValue(NumberOrZero(input, "y"), 0, maxY),
         color  |-> IF "color" \in DOMAIN input /\ input.color # ""
                    THEN input.color ELSE DEFAULT_COVER_COLOR]

\* { ...a, ...b }: the fields of b override those of a
Spread(a, b) ==
    [f \in DOMAIN a \cup DOMAIN b |-> IF f \in DOMAIN b THEN b[f] ELSE a[f]]

\* generateCoverId(): a fresh id "cover-<n>"
generateCoverId(n) == "cover-" \o ToString(n)

\* A stored cover is the sanitized cover, with the private _imageId marker
\* when it is scoped to a floor (imageId = 0: no marker).
StoredCover(sanitized, imageId) ==
    [id |-> sanitized.id, width |-> sanitized.width, height |-> sanitized.height,
     x |-> sanitized.x, y |-> sanitized.y, color |-> sanitized.color,
     imageId |-> imageId]

\* The key of a cover in battlemap.covers: `${imageId}:${coverId}` when it
\* is scoped to a floor, the bare cover id otherwise (imageId = 0).
CoverKey(imageId, coverId) == <<imageId, coverId>>

\* const { _imageId, ...rest } = value
StripImageId(c) ==
    [id |-> c.id, width |-> c.width, height |-> c.height,
     x |-> c.x, y |-> c.y, color |-> c.color]

serializeBattlemapSummary(battlemap) ==
    [id |-> battlemap.id, name |-> battlemap.name, mapPath |-> battlemap.mapPath]

\* A serializer that sends every cover of the battlemap, whatever its floor
getBattlemapCoversUnfiltered(battlemap, coverImageId) ==
    {StripImageId(battlemap.covers[k]) : k \in DOMAIN battlemap.covers}

\* The covers map has no order the claims depend on: the cover list of a
\* snapshot is modelled as the set of its elements.
getBattlemapCoversForActiveImage(battlemap, coverImageId) ==
    IF coverImageId /\ battlemap.activeImageId # 0
    THEN {StripImageId(battlemap.covers[k]) :
            k \in {k \in DOMAIN battlemap.covers :
                      \/ battlemap.covers[k].imageId = battlemap.activeImageId
                      \/ battlemap.covers[k].imageId = 0}}
    ELSE Range(battlemap.covers)

serializeBattlemap(battlemap, coverImageId) ==
    [id            |-> battlemap.id,
     name          |-> battlemap.name,
     mapPath       |-> battlemap.mapPath,
     images        |-> battlemap.images,
     activeImageId |-> battlemap.activeImageId,
     gridScale     |-> battlemap.gridScale,
     gridOffsetX   |-> battlemap.gridOffsetX,
     gridOffsetY   |-> battlemap.gridOffsetY,
     gridData      |-> battlemap.gridData,
     covers        |-> getBattlemapCoversForActiveImage(battlemap, coverImageId)]

\* getDefaultBattlemapId(): first battlemap in order on the default map path
RECURSIVE DefaultIdIn(_, _)
DefaultIdIn(ord, m) ==
    IF ord = <<>> THEN 0
    ELSE IF Head(ord) \in DOMAIN m /\ m[Head(ord)].mapPath = DEFAULT_BATTLEMAP_MAP_PATH
         THEN Head(ord)
         ELSE DefaultIdIn(Tail(ord), m)

getDefaultBattlemapId(ord, m) == DefaultIdIn(ord, m)

\* getDefaultBattlemapId() ?? battlemapState.order[0] ?? null
DefaultOrFirst(ord, m) ==
    IF getDefaultBattlemapId(ord, m) # 0 THEN getDefaultBattlemapId(ord, m)
    ELSE IF ord # <<>> THEN ord[1] ELSE 0

\* A re-selection that takes the first battlemap in order, whatever its path
ensureActiveBattlemapFirst(active, ord, m) ==
    IF active # 0 /\ active \in DOMAIN m THEN active
    ELSE IF ord # <<>> THEN ord[1] ELSE 0

\* ensureActiveBattlemap(): the active id it leaves
ensureActiveBattlemap(active, ord, m) ==
    IF active # 0 /\ active \in DOMAIN m THEN active ELSE DefaultOrFirst(ord, m)

\* getBattlemapImageById: the image record, or NoImage
NoImage == [id |-> 0, name |-> NULL, mapPath |-> NULL, sortIndex |-> 0]
getBattlemapImageById(battlemap, imageId) ==
    LET hits == {i \in 1..Len(battlemap.images) : battlemap.images[i].id = imageId}
    IN  IF hits = {} THEN NoImage
        ELSE battlemap.images[CHOOSE i \in hits : \A j \in hits : i <= j]

\* a ?? b on map paths
Coalesce(a, b) == IF a # NULL THEN a ELSE b

----------------------------------------------------------------------------
(* Startup: loadBattlemapStateFromSupabase over the rows the store returns *)

\* The n-th id minted by the store (gen_random_uuid()): randomUUID() of the
\* server, the counter nextUuid, never returns one of them.
StoreId(n) == 100 + n

BattlemapRow(id, name, path, activeImage) ==
    [id |-> id, name |-> name, map_path |-> path, active_image_id |-> activeImage,
     grid_scale |-> DefaultGridScale, grid_offset_x |-> DefaultGridOffsetX,
     grid_offset_y |-> DefaultGridOffsetY, grid_data |-> DefaultGridData]

ImageRow(id, battlemapId, name, path, sortIndex) ==
    [id |-> id, battlemap_id |-> battlemapId, name |-> name, map_path |-> path,
     sort_index |-> sortIndex]

\* geometry: the x / y / width / height / color columns of the row
CoverRow(id, battlemapId, imageId, geometry) ==
    Spread(geometry, [id |-> id, battlemap_id |-> battlemapId,
                      battlemap_image_id |-> imageId])

\* The row the load inserts when the battlemaps table is empty (the store
\* mints its id; the select that returns it has no active_image_id).
SeedRow == BattlemapRow(StoreId(1), DEFAULT_BATTLEMAP_NAME, DEFAULT_BATTLEMAP_MAP_PATH, 0)

RECURSIVE InsertBySortIndex(_, _)
InsertBySortIndex(sorted, e) ==
    IF sorted = <<>> THEN <<e>>
    ELSE IF Head(sorted).sortIndex <= e.sortIndex
         THEN <<Head(sorted)>> \o InsertBySortIndex(Tail(sorted), e)
         ELSE <<e>> \o sorted

RECURSIVE SortBySortIndex(_)
\* list.sort((a, b) => a.sortIndex - b.sortIndex): a stable sort
SortBySortIndex(list) ==
    IF list = <<>> THEN <<>>
    ELSE InsertBySortIndex(SortBySortIndex(SubSeq(list, 1, Len(list) - 1)),
                           list[Len(list)])

RECURSIVE ImagesOfRows(_, _)
\* byBattlemap.get(battlemapId): the image rows of one battlemap, in query order
ImagesOfRows(imageRows, battlemapId) ==
    IF imageRows = <<>> THEN <<>>
    ELSE LET r == Head(imageRows)
             rest == ImagesOfRows(Tail(imageRows), battlemapId)
         IN  IF r.battlemap_id = battlemapId
             THEN <<[id |-> r.id, name |-> r.name, mapPath |-> r.map_path,
                     sortIndex |-> r.sort_index]>> \o rest
             ELSE rest

\* One battlemap as the load leaves it before covers are attached
LoadedBattlemap(row, imageRows, hasImages, hasActiveImageId) ==
    LET base == [id |-> row.id, name |-> row.name, mapPath |-> row.map_path,
                 images |-> <<>>,
                 activeImageId |-> IF hasActiveImageId THEN row.active_image_id ELSE 0,
                 gridScale |-> row.grid_scale, gridOffsetX |-> row.grid_offset_x,
                 gridOffsetY |-> row.grid_offset_y,
                 gridData |-> sanitizeGridData(row.grid_data),
                 covers |-> EmptyMap]
        list == SortBySortIndex(ImagesOfRows(imageRows, row.id))
    IN  IF ~hasImages
        THEN [base EXCEPT !.activeImageId = 0]
        ELSE IF list = <<>> THEN base
        ELSE LET withImages == [base EXCEPT !.images = list]
                 activeId == IF base.activeImageId = 0 THEN list[1].id
                             ELSE base.activeImageId
                 found == getBattlemapImageById(withImages, activeId)
                 activeImage == IF found.id # 0 THEN found ELSE list[1]
             IN  [withImages EXCEPT
                    !.activeImageId = activeId,
                    !.mapPath = Coalesce(activeImage.mapPath, base.mapPath)]

RECURSIVE AttachCovers(_, _, _)
\* The cover loop of the load, row by row
AttachCovers(m, coverRows, hasCoverImageId) ==
    IF coverRows = <<>> THEN m
    ELSE LET c == Head(coverRows)
             rest == Tail(coverRows)
         IN  IF c.battlemap_id \notin DOMAIN m THEN AttachCovers(m, rest, hasCoverImageId)
             ELSE LET parent == m[c.battlemap_id]
                      scoped == /\ hasCoverImageId
                                /\ c.battlemap_image_id # 0
                                /\ parent.images # <<>>
                      imageId == IF scoped THEN c.battlemap_image_id ELSE 0
                      stored == StoredCover(sanitizeCover(c), imageId)
                      covers2 == With(parent.covers, CoverKey(imageId, c.id), stored)
                  IN  AttachCovers([m EXCEPT ![c.battlemap_id].covers = covers2],
                                   rest, hasCoverImageId)

\* store: [battlemaps, images, covers], sequences of rows in query order
LoadedOrder(store) ==
    LET rows == IF store.battlemaps = <<>> THEN <<SeedRow>> ELSE store.battlemaps
    IN  [i \in 1..Len(rows) |-> rows[i].id]

LoadedMaps(store, hasImages, hasActiveImageId, hasCoverImageId) ==
    LET rows == IF store.battlemaps = <<>> THEN <<SeedRow>> ELSE store.battlemaps
        bare == [id \in {rows[i].id : i \in 1..Len(rows)} |->
                   LoadedBattlemap(
                       rows[CHOOSE i \in 1..Len(rows) : rows[i].id = id],
                       store.images, hasImages, hasActiveImageId)]
    IN  AttachCovers(bare, store.covers, hasCoverImageId)

NoUserData == [id |-> NULL]
NoAck      == [none |-> TRUE]
NoReq      == [op |-> "none"]

RECURSIVE RowsById(_)
\* A table as the store holds it: its rows by primary key
RowsById(rows) ==
    IF rows = <<>> THEN EmptyMap
    ELSE With(RowsById(Tail(rows)), Head(rows).id, Head(rows))

\* The tables once the load has finished: an empty battlemaps table has
\* received the seed row
StoreAfterLoad(store) ==
    [battlemaps |-> RowsById(IF store.battlemaps = <<>> THEN <<SeedRow>>
                             ELSE store.battlemaps),
     battlemap_images |-> RowsById(store.images),
     battlemap_covers |-> RowsById(store.covers)]

NoResponse == [none |-> TRUE]

\* No connection exists when the load has finished
loadBattlemapStateFromSupabase(store, hasImages, hasActiveImageId, hasCoverImageId) ==
    /\ supportsBattlemapImages = hasImages
    /\ supportsBattlemapActiveImageId = hasActiveImageId
    /\ supportsBattlemapCoverImageId = hasCoverImageId
    /\ order = LoadedOrder(store)
    /\ maps = LoadedMaps(store, hasImages, hasActiveImageId, hasCoverImageId)
    /\ activeBattlemapId = DefaultOrFirst(order, maps)
    /\ users = EmptyMap
    /\ usersOrder = <<>>
    /\ disconnectedUsers = EmptyMap
    /\ displayModeUsers = EmptyMap
    /\ covers = EmptyMap
    /\ sockets = EmptyMap
    /\ nextUuid = 1
    /\ nextCoverId = 1
    /\ nextTokenId = 1
    /\ req = NoReq
    /\ ack = NoAck
    /\ emitted = <<>>
    /\ scheduled = <<>>
    /\ background = <<>>
    /\ supabase = StoreAfterLoad(store)
    /\ response = NoResponse
    /\ phase = "serving"

----------------------------------------------------------------------------
(* Connections: io.on('connection'), initializeUser, the grace timer *)

SocketId(n) == "s" \o ToString(n)

ToAll       == [kind |-> "all", socket |-> NULL]       \* io.emit
ToSocket(s) == [kind |-> "socket", socket |-> s]       \* socket.emit
ToOthers(s) == [kind |-> "others", socket |-> s]       \* socket.broadcast.emit

Msg(to, event, payload) == [to |-> to, event |-> event, payload |-> payload]

BattlemapList(ord, m) ==
    LET present == FilterSeq(ord, DOMAIN m)
    IN  [i \in 1..Len(present) |-> serializeBattlemapSummary(m[present[i]])]

\* getRandomColor() picks one of ten colors; the model keeps the first ones
Palette == {"#ef4444", "#3b82f6"}

DefaultPosition == [x |-> 50, y |-> 50]
\* A position-update payload that is falsy in JavaScript (null, 0, "")
FalsyPosition   == [falsy |-> TRUE]

OpenSockets == {s \in DOMAIN sockets : sockets[s].open}

\* io.on('connection'): the closure starts unidentified, the list and the
\* active battlemap are sent to the socket, the 5 s grace timer is armed.
Connect ==
    /\ phase = "serving"
    /\ LET s == SocketId(Cardinality(DOMAIN sockets) + 1)
           active == ensureActiveBattlemap(activeBattlemapId, order, maps)
       IN  /\ sockets' = With(sockets, s,
                   [open |-> TRUE, userData |-> NoUserData,
                    identificationReceived |-> FALSE,
                    identifyListener |-> TRUE, timer |-> TRUE])
           /\ activeBattlemapId' = active
           /\ req' = [op |-> "connection", socket |-> s]
           /\ ack' = NoAck
           /\ emitted' = <<Msg(ToSocket(s), "battlemap:list", BattlemapList(order, maps)),
                           Msg(ToSocket(s), "battlemap:active", active)>>
           /\ scheduled' = <<>>
           /\ UNCHANGED <<storeVars, phase>>
    /\ UNCHANGED <<order, maps, flagVars, presenceVars, idVars>>

\* The same, while fewer than MaxSockets connections have been opened
Connection ==
    /\ Cardinality(DOMAIN sockets) < MaxSockets
    /\ Connect

\* findDisconnectedUser: the key of the matching ghost, or NULL
findDisconnectedUser(persistentId, fallbackId) ==
    IF persistentId # NULL /\ persistentId \in DOMAIN disconnectedUsers
    THEN persistentId
    ELSE LET hits == {k \in DOMAIN disconnectedUsers :
                        \/ disconnectedUsers[k].persistentUserId = persistentId
                        \/ (fallbackId # NULL /\ k = fallbackId)}
         IN  IF hits = {} THEN NULL ELSE CHOOSE k \in hits : TRUE

\* The payload every user-connected / user-joined / user-reconnected carries
UserInfo(userData) ==
    [userId |-> userData.id, persistentUserId |-> userData.persistentUserId,
     color |-> userData.color, position |-> userData.position,
     imageSrc |-> userData.imageSrc, size |-> userData.size]

\* The fresh userData record of initializeUser.  The record is built from
\* the restored ghost's color, position and size only: it has no imageSrc.
NewUserData(s, persistentUserId, color, position, size, data, restored) ==
    LET isDisplay == "isDisplay" \in DOMAIN data /\ data.isDisplay
    IN  [id |-> s,
         persistentUserId |-> persistentUserId,
         color |-> color,
         position |-> position,
         size |-> size,
         imageSrc |-> NULL,
         isDisplay |-> isDisplay,
         allowBattlemapMutations |->
             IF "allowBattlemapMutations" \in DOMAIN data
             THEN data.allowBattlemapMutations ELSE isDisplay,
         suppressPresence |->
             "suppressPresence" \in DOMAIN data /\ data.suppressPresence]

\* users.set(key, value) / users.delete(key) on the insertion order
OrderWith(ord, k)    == IF k \in Range(ord) THEN ord ELSE Append(ord, k)
OrderWithout(ord, k) == FilterSeq(ord, Range(ord) \ {k})

\* initializeUser(data) in the closure of socket s; sk is the socket table
\* the handler that calls it has reached.
initializeUser(s, data, sk) ==
    LET incomingPersistentId ==
            IF "persistentUserId" \in DOMAIN data /\ data.persistentUserId # ""
            THEN data.persistentUserId ELSE NULL
        old == sk[s].userData
    IN
    IF sk[s].identificationReceived
    THEN \* a later identify only overwrites the persistent id of the record,
         \* which is the same object the users / displayModeUsers maps hold
         LET change == /\ incomingPersistentId # NULL
                       /\ old.id # NULL
                       /\ old.persistentUserId # incomingPersistentId
             new == IF change THEN [old EXCEPT !.persistentUserId = incomingPersistentId]
                    ELSE old
         IN  /\ sockets' = [sk EXCEPT ![s].userData = new]
             /\ users' = IF s \in DOMAIN users
                         THEN [users EXCEPT ![s].persistentUserId = new.persistentUserId]
                         ELSE users
             /\ displayModeUsers' = IF s \in DOMAIN displayModeUsers
                                    THEN [displayModeUsers EXCEPT ![s] = new]
                                    ELSE displayModeUsers
             /\ emitted' = <<>>
             /\ UNCHANGED <<disconnectedUsers, usersOrder>>
    ELSE
    LET persistentUserId == IF incomingPersistentId # NULL THEN incomingPersistentId ELSE s
        match == findDisconnectedUser(persistentUserId,
                     IF incomingPersistentId # NULL THEN NULL ELSE s)
        restored == match # NULL
        ghost == IF restored THEN disconnectedUsers[match] ELSE NoUserData
        ghosts2 == IF restored THEN Without(disconnectedUsers, match)
                   ELSE disconnectedUsers
        drawn == ~(restored /\ ghost.color # "")
    IN  \* the color is drawn only when no ghost color is restored
        \E random \in IF drawn THEN Palette ELSE {NULL} :
        LET color == IF drawn THEN random ELSE ghost.color
            position == IF restored /\ ghost.position # FalsyPosition
                        THEN ghost.position ELSE DefaultPosition
            size == sanitizeTokenSize(IF restored THEN ghost.size ELSE NULL)
            userData == NewUserData(s, persistentUserId, color, position, size,
                                    data, restored)
            users2 == IF userData.isDisplay THEN users ELSE With(users, s, userData)
            activeUsersList == {users2[k] : k \in {k \in DOMAIN users2 : ~users2[k].isDisplay}}
        IN  /\ sockets' = [sk EXCEPT ![s].userData = userData,
                                     ![s].identificationReceived = TRUE]
            /\ disconnectedUsers' = ghosts2
            /\ IF userData.suppressPresence
               THEN /\ emitted' = <<>>
                    /\ UNCHANGED <<users, usersOrder, displayModeUsers>>
               ELSE /\ users' = users2
                    /\ usersOrder' = IF userData.isDisplay THEN usersOrder
                                     ELSE OrderWith(usersOrder, s)
                    /\ displayModeUsers' =
                         IF userData.isDisplay THEN With(displayModeUsers, s, userData)
                         ELSE displayModeUsers
                    /\ emitted' =
                         <<Msg(ToSocket(s), "user-connected", UserInfo(userData)),
                           Msg(ToSocket(s), "all-users", activeUsersList)>>
                         \o (IF DOMAIN covers # {}
                             THEN <<Msg(ToSocket(s), "all-covers", Range(covers))>>
                             ELSE <<>>)
                         \o (IF DOMAIN ghosts2 # {}
                             THEN <<Msg(ToSocket(s), "disconnected-users", Range(ghosts2))>>
                             ELSE <<>>)
                         \o (IF userData.isDisplay THEN <<>>
                             ELSE IF ~restored
                             THEN <<Msg(ToOthers(s), "user-joined", UserInfo(userData))>>
                             ELSE <<Msg(ToOthers(s), "user-reconnected", UserInfo(userData))>>)

\* socket.once('user-identify'): the first identification message of an
\* open socket runs initializeUser; the listener is then gone.
UserIdentify(s, data) ==
    /\ s \in OpenSockets
    /\ sockets[s].identifyListener
    /\ initializeUser(s, data, [sockets EXCEPT ![s].identifyListener = FALSE])
    /\ req' = [op |-> "user-identify", socket |-> s, data |-> data]
    /\ ack' = NoAck
    /\ scheduled' = <<>>
    /\ UNCHANGED <<storeVars, phase>>
    /\ UNCHANGED <<bmVars, flagVars, covers, idVars>>

GraceTimerReinitializes(s) ==
    /\ s \in DOMAIN sockets
    /\ sockets[s].timer
    /\ initializeUser(s, <<>>, [sockets EXCEPT ![s].timer = FALSE,
                                               ![s].identificationReceived = FALSE])
    /\ req' = [op |-> "timeout", socket |-> s]
    /\ ack' = NoAck
    /\ scheduled' = <<>>
    /\ UNCHANGED <<storeVars, phase>>
    /\ UNCHANGED <<bmVars, flagVars, covers, idVars>>

\* setTimeout(..., 5000): the grace timer of a connection fires once, whether
\* or not the socket is still open; it identifies an unidentified closure.
GraceTimer(s) ==
    /\ s \in DOMAIN sockets
    /\ sockets[s].timer
    /\ IF sockets[s].identificationReceived
       THEN /\ sockets' = [sockets EXCEPT ![s].timer = FALSE]
            /\ emitted' = <<>>
            /\ UNCHANGED <<users, usersOrder, disconnectedUsers, displayModeUsers>>
       ELSE initializeUser(s, <<>>, [sockets EXCEPT ![s].timer = FALSE])
    /\ req' = [op |-> "timeout", socket |-> s]
    /\ ack' = NoAck
    /\ scheduled' = <<>>
    /\ UNCHANGED <<storeVars, phase>>
    /\ UNCHANGED <<bmVars, flagVars, covers, idVars>>

DisconnectForgets(s) ==
    /\ s \in OpenSockets
    /\ sockets' = [sockets EXCEPT ![s].open = FALSE]
    /\ users' = IF s \in DOMAIN users THEN Without(users, s) ELSE users
    /\ usersOrder' = OrderWithout(usersOrder, s)
    /\ displayModeUsers' = IF s \in DOMAIN displayModeUsers
                           THEN Without(displayModeUsers, s) ELSE displayModeUsers
    /\ req' = [op |-> "disconnect", socket |-> s]
    /\ ack' = NoAck
    /\ emitted' = <<>>
    /\ scheduled' = <<>>
    /\ UNCHANGED <<storeVars, phase>>
    /\ UNCHANGED <<bmVars, flagVars, disconnectedUsers, covers, idVars>>

\* socket.on('disconnect')
Disconnect(s) ==
    /\ s \in OpenSockets
    /\ sockets' = [sockets EXCEPT ![s].open = FALSE]
    /\ IF s \in DOMAIN users
       THEN LET user == users[s]
                persistentId == IF user.persistentUserId # NULL
                                THEN user.persistentUserId ELSE s
                disconnectedUserData ==
                    [id |-> persistentId, persistentUserId |-> persistentId,
                     color |-> user.color, position |-> user.position,
                     imageSrc |-> user.imageSrc,
                     size |-> sanitizeTokenSize(user.size)]
            IN  /\ disconnectedUsers' =
                      With(disconnectedUsers, persistentId, disconnectedUserData)
                /\ users' = Without(users, s)
                /\ usersOrder' = OrderWithout(usersOrder, s)
                /\ emitted' = <<Msg(ToOthers(s), "user-disconnected",
                                    [userId |-> s, persistentUserId |-> persistentId,
                                     color |-> user.color, position |-> user.position,
                                     imageSrc |-> user.imageSrc,
                                     size |-> sanitizeTokenSize(user.size)])>>
                /\ UNCHANGED displayModeUsers
       ELSE /\ displayModeUsers' = IF s \in DOMAIN displayModeUsers
                                   THEN Without(displayModeUsers, s)
                                   ELSE displayModeUsers
            /\ emitted' = <<>>
            /\ UNCHANGED <<users, usersOrder, disconnectedUsers>>
    /\ req' = [op |-> "disconnect", socket |-> s]
    /\ ack' = NoAck
    /\ scheduled' = <<>>
    /\ UNCHANGED <<storeVars, phase>>
    /\ UNCHANGED <<bmVars, flagVars, covers, idVars>>

\* A write through users.get(key) reaches the closure's userData too: for a
\* socket's own entry both names denote one object.
SocketsWithUser(key, user) ==
    IF key \in DOMAIN sockets /\ key \in DOMAIN users
    THEN [sockets EXCEPT ![key].userData = user]
    ELSE sockets

\* socket.on('position-update'): data is a bare position (tokenId = NULL) or
\* { tokenId, position } with both truthy
PositionUpdate(s, tokenId, position) ==
    /\ s \in OpenSockets
    /\ LET targetUserId == IF tokenId # NULL THEN tokenId ELSE s
       IN  IF targetUserId \in DOMAIN users
           THEN LET user == [users[targetUserId] EXCEPT !.position = position]
                IN  /\ users' = [users EXCEPT ![targetUserId] = user]
                    /\ sockets' = SocketsWithUser(targetUserId, user)
                    /\ emitted' = <<Msg(ToOthers(s), "user-moved",
                                        [userId |-> targetUserId, position |-> position])>>
           ELSE /\ emitted' = <<>>
                /\ UNCHANGED <<users, sockets>>
    /\ req' = [op |-> "position-update", socket |-> s]
    /\ ack' = NoAck
    /\ scheduled' = <<>>
    /\ UNCHANGED <<storeVars, phase>>
    /\ UNCHANGED <<bmVars, flagVars, usersOrder, disconnectedUsers, displayModeUsers,
                   covers, idVars>>

\* socket.on('token-image-update') with data = { tokenId, imageSrc }
TokenImageUpdate(s, tokenId, imageSrc) ==
    /\ s \in OpenSockets
    /\ IF tokenId # NULL /\ tokenId \in DOMAIN users
       THEN LET src == IF imageSrc # "" THEN imageSrc ELSE NULL
                user == [users[tokenId] EXCEPT !.imageSrc = src]
            IN  /\ users' = [users EXCEPT ![tokenId] = user]
                /\ sockets' = SocketsWithUser(tokenId, user)
                /\ emitted' = <<Msg(ToAll, "token-image-updated",
                                    [userId |-> tokenId, imageSrc |-> src])>>
       ELSE /\ emitted' = <<>>
            /\ UNCHANGED <<users, sockets>>
    /\ req' = [op |-> "token-image-update", socket |-> s]
    /\ ack' = NoAck
    /\ scheduled' = <<>>
    /\ UNCHANGED <<storeVars, phase>>
    /\ UNCHANGED <<bmVars, flagVars, usersOrder, disconnectedUsers, displayModeUsers,
                   covers, idVars>>

\* The first entry of users, in insertion order, with this persistent id
FirstActiveWith(persistentId) ==
    LET hits == {i \in 1..Len(usersOrder) :
                    users[usersOrder[i]].persistentUserId = persistentId}
    IN  IF hits = {} THEN NULL
        ELSE usersOrder[CHOOSE i \in hits : \A j \in hits : i <= j]

\* socket.on('token-size-update') with data = { tokenId, size }
TokenSizeUpdate(s, tokenId, size) ==
    /\ s \in OpenSockets
    /\ IF sockets[s].userData.id = NULL \/ ~sockets[s].userData.isDisplay
          \/ tokenId = NULL \/ tokenId = ""
       THEN /\ emitted' = <<>>
            /\ UNCHANGED <<users, sockets, disconnectedUsers>>
       ELSE LET nextSize == sanitizeTokenSize(size)
                byPersistent == FirstActiveWith(tokenId)
                target == IF tokenId \in DOMAIN users THEN tokenId
                          ELSE IF tokenId \in DOMAIN disconnectedUsers THEN NULL
                          ELSE byPersistent
            IN  /\ IF target # NULL
                   THEN LET user == [users[target] EXCEPT !.size = nextSize]
                        IN  /\ users' = [users EXCEPT ![target] = user]
                            /\ sockets' = SocketsWithUser(target, user)
                   ELSE UNCHANGED <<users, sockets>>
                /\ disconnectedUsers' =
                     IF tokenId \notin DOMAIN users /\ tokenId \in DOMAIN disconnectedUsers
                     THEN [disconnectedUsers EXCEPT ![tokenId].size = nextSize]
                     ELSE disconnectedUsers
                /\ emitted' = <<Msg(ToAll, "token-size-updated",
                                    [userId |-> tokenId, size |-> nextSize])>>
    /\ req' = [op |-> "token-size-update", socket |-> s]
    /\ ack' = NoAck
    /\ scheduled' = <<>>
    /\ UNCHANGED <<storeVars, phase>>
    /\ UNCHANGED <<bmVars, flagVars, usersOrder, displayModeUsers, covers, idVars>>

\* A removal that takes the oldest manual token whatever identity it names
RemoveTokenAnyManual(s, persistentUserId) ==
    /\ s \in OpenSockets
    /\ LET manual == {i \in 1..Len(usersOrder) : usersOrder[i] \notin DOMAIN sockets}
           victim == IF manual = {} THEN NULL
                     ELSE usersOrder[CHOOSE i \in manual : \A k \in manual : i <= k]
       IN  /\ users' = IF victim # NULL THEN Without(users, victim) ELSE users
           /\ usersOrder' = IF victim # NULL THEN OrderWithout(usersOrder, victim)
                            ELSE usersOrder
           /\ emitted' = <<Msg(ToAll, "token-removed", persistentUserId)>>
    /\ req' = [op |-> "remove-token", socket |-> s,
               persistentUserId |-> persistentUserId]
    /\ ack' = NoAck
    /\ scheduled' = <<>>
    /\ UNCHANGED <<storeVars, phase>>
    /\ UNCHANGED <<bmVars, flagVars, disconnectedUsers, displayModeUsers, covers,
                   sockets, idVars>>

\* socket.on('remove-token') with data = { persistentUserId }
RemoveToken(s, persistentUserId) ==
    /\ s \in OpenSockets
    /\ IF s \in DOMAIN displayModeUsers /\ persistentUserId # NULL
          /\ persistentUserId # ""
       THEN LET victim == FirstActiveWith(persistentUserId)
            IN  /\ disconnectedUsers' =
                     IF persistentUserId \in DOMAIN disconnectedUsers
                     THEN Without(disconnectedUsers, persistentUserId)
                     ELSE disconnectedUsers
                /\ users' = IF victim # NULL THEN Without(users, victim) ELSE users
                /\ usersOrder' = IF victim # NULL THEN OrderWithout(usersOrder, victim)
                                 ELSE usersOrder
                /\ emitted' =
                     (IF victim # NULL /\ victim \in OpenSockets
                      THEN <<Msg(ToSocket(victim), "token-removed", persistentUserId)>>
                      ELSE <<>>)
                     \o <<Msg(ToAll, "token-removed", persistentUserId)>>
       ELSE /\ emitted' = <<>>
            /\ UNCHANGED <<users, usersOrder, disconnectedUsers>>
    /\ req' = [op |-> "remove-token", socket |-> s,
               persistentUserId |-> persistentUserId]
    /\ ack' = NoAck
    /\ scheduled' = <<>>
    /\ UNCHANGED <<storeVars, phase>>
    /\ UNCHANGED <<bmVars, flagVars, displayModeUsers, covers, sockets, idVars>>

\* Bound: manual tokens ever added
MaxTokens == 1

TokenId(n)           == "token-" \o ToString(n)
PersistentTokenId(n) == "ptoken-" \o ToString(n)

\* socket.on('add-token') with data = { color, position, size, imageSrc }
AddToken(s, color, position, size, imageSrc) ==
    /\ s \in OpenSockets
    /\ nextTokenId <= MaxTokens
    /\ \E random \in IF color = NULL \/ color = "" THEN Palette ELSE {NULL} :
       LET tokenId == TokenId(nextTokenId)
           tokenData ==
               [id |-> tokenId,
                persistentUserId |-> PersistentTokenId(nextTokenId),
                color |-> IF color = NULL \/ color = "" THEN random ELSE color,
                position |-> IF position = FalsyPosition THEN DefaultPosition
                             ELSE position,
                size |-> sanitizeTokenSize(size),
                imageSrc |-> imageSrc,
                isDisplay |-> FALSE]
       IN  /\ users' = With(users, tokenId, tokenData)
           /\ usersOrder' = OrderWith(usersOrder, tokenId)
           /\ emitted' = <<Msg(ToAll, "token-added",
                               [userId |-> tokenId,
                                persistentUserId |-> tokenData.persistentUserId,
                                color |-> tokenData.color,
                                position |-> tokenData.position,
                                size |-> tokenData.size,
                                imageSrc |-> tokenData.imageSrc])>>
    /\ nextTokenId' = nextTokenId + 1
    /\ req' = [op |-> "add-token", socket |-> s]
    /\ ack' = NoAck
    /\ scheduled' = <<>>
    /\ UNCHANGED <<storeVars, phase>>
    /\ UNCHANGED <<bmVars, flagVars, disconnectedUsers, displayModeUsers, covers,
                   sockets, nextUuid, nextCoverId>>

----------------------------------------------------------------------------
(* The mutation gateway: shared helpers *)

\* What one battlemap handler leaves behind: the battlemap state, the id
\* counters, the ack, the messages emitted and the background tasks scheduled.
Outcome(ord, m, active, uuid, coverId, reply, msgs, tasks) ==
    [order |-> ord, maps |-> m, active |-> active, uuid |-> uuid,
     coverId |-> coverId, ack |-> reply, emitted |-> msgs, scheduled |-> tasks]

Ok          == [ok |-> TRUE]
Failure(e)  == [ok |-> FALSE, error |-> e]

\* respond(ack, { ok: false, error }) and return, nothing else done
Rejected(error) ==
    Outcome(order, maps, activeBattlemapId, nextUuid, nextCoverId,
            Failure(error), <<>>, <<>>)

\* runBackgroundTask(description, task): the task is recorded by its
\* description and the values its closure captured
Task(description, args) == [description |-> description, args |-> args]

ensureBattlemapMutatorOpen(s) == TRUE

\* ensureBattlemapMutator: TRUE when the handler may go on
ensureBattlemapMutator(s) ==
    /\ sockets[s].userData.id # NULL
    /\ sockets[s].userData.allowBattlemapMutations

\* getBattlemapOrRespond: the error it responds with, or "none"
getBattlemapOrRespond(battlemapId) ==
    IF battlemapId = 0 THEN "invalid-battlemap-id"
    ELSE IF battlemapId \notin DOMAIN maps THEN "battlemap-not-found"
    ELSE "none"

\* `Floor ${n}`
FloorName(n) == "Floor " \o ToString(n)

NewImage(id, name, mapPath, sortIndex) ==
    [id |-> id, name |-> name, mapPath |-> mapPath, sortIndex |-> sortIndex]

ensureBattlemapHasAtLeastOneImageNoBackfill(battlemap, uuid) ==
    [battlemap |-> battlemap, uuid |-> uuid, tasks |-> <<>>]

\* ensureBattlemapHasAtLeastOneImage: the battlemap it leaves, the uuid
\* counter after it, and the background task it scheduled (if any)
ensureBattlemapHasAtLeastOneImage(battlemap, uuid) ==
    IF ~supportsBattlemapImages
    THEN [battlemap |-> battlemap, uuid |-> uuid, tasks |-> <<>>]
    ELSE IF battlemap.images # <<>>
    THEN LET activeId == IF battlemap.activeImageId = 0 THEN battlemap.images[1].id
                         ELSE battlemap.activeImageId
             found == getBattlemapImageById(battlemap, activeId)
             active == IF found.id # 0 THEN found ELSE battlemap.images[1]
         IN  [battlemap |-> [battlemap EXCEPT
                               !.activeImageId = activeId,
                               !.mapPath = Coalesce(active.mapPath, battlemap.mapPath)],
              uuid |-> uuid, tasks |-> <<>>]
    ELSE LET image == NewImage(uuid, "Floor 1", battlemap.mapPath, 0)
         IN  [battlemap |-> [battlemap EXCEPT !.images = <<image>>,
                                              !.activeImageId = uuid],
              uuid |-> uuid + 1,
              tasks |-> <<Task("backfill battlemap image",
                               [battlemapId |-> battlemap.id, image |-> image])>>]

Snapshot(battlemap) == serializeBattlemap(battlemap, supportsBattlemapCoverImageId)

\* emitBattlemapUpdate(battlemapId) over the maps m
emitBattlemapUpdate(m, battlemapId) ==
    IF battlemapId \in DOMAIN m
    THEN <<Msg(ToAll, "battlemap:updated", Snapshot(m[battlemapId]))>>
    ELSE <<>>

broadcastBattlemapList(ord, m) == <<Msg(ToAll, "battlemap:list", BattlemapList(ord, m))>>
broadcastActiveBattlemap(active) == <<Msg(ToAll, "battlemap:active", active)>>

\* payload.name trimmed, or the default when it is missing or blank
NameOr(name, default) == IF name # NULL /\ name # "" THEN name ELSE default
\* payload.mapPath trimmed, or null when it is missing or blank
PathOrNull(path) == IF path # NULL /\ path # "" THEN path ELSE NULL

----------------------------------------------------------------------------
(* The mutation gateway: one outcome operator per socket event *)

\* socket.on('battlemap:get')
GetOutcome(battlemapId) ==
    IF getBattlemapOrRespond(battlemapId) # "none"
    THEN Rejected(getBattlemapOrRespond(battlemapId))
    ELSE LET e == ensureBattlemapHasAtLeastOneImage(maps[battlemapId], nextUuid)
         IN  Outcome(order, [maps EXCEPT ![battlemapId] = e.battlemap],
                     activeBattlemapId, e.uuid, nextCoverId,
                     [ok |-> TRUE, battlemap |-> Snapshot(e.battlemap)],
                     <<>>, e.tasks)

\* socket.on('battlemap:create')
CreateOutcome(s, name, mapPath) ==
    IF ~ensureBattlemapMutator(s) THEN Rejected("forbidden")
    ELSE LET trimmedName == NameOr(name, "Untitled Battlemap")
             sanitizedPath == PathOrNull(mapPath)
             battlemapId == nextUuid
             initialImageId == IF supportsBattlemapImages THEN nextUuid + 1 ELSE 0
             newBattlemap ==
                 [id |-> battlemapId, name |-> trimmedName, mapPath |-> sanitizedPath,
                  images |-> IF supportsBattlemapImages
                             THEN <<NewImage(initialImageId, "Floor 1", sanitizedPath, 0)>>
                             ELSE <<>>,
                  activeImageId |-> initialImageId,
                  gridScale |-> DefaultGridScale, gridOffsetX |-> DefaultGridOffsetX,
                  gridOffsetY |-> DefaultGridOffsetY, gridData |-> cloneGridData,
                  covers |-> EmptyMap]
             order2 == Append(order, battlemapId)
             maps2 == With(maps, battlemapId, newBattlemap)
             active2 == IF activeBattlemapId = 0 THEN battlemapId ELSE activeBattlemapId
         IN  Outcome(order2, maps2, active2,
                     IF supportsBattlemapImages THEN nextUuid + 2 ELSE nextUuid + 1,
                     nextCoverId,
                     [ok |-> TRUE, battlemapId |-> battlemapId],
                     broadcastBattlemapList(order2, maps2)
                       \o (IF activeBattlemapId = 0
                           THEN broadcastActiveBattlemap(active2) ELSE <<>>)
                       \o emitBattlemapUpdate(maps2, battlemapId),
                     <<Task("insert battlemap",
                            [battlemap |-> newBattlemap, sortIndex |-> Len(order),
                             imageId |-> initialImageId])>>)

\* The common prefix of the four floor handlers: the mutator check, the
\* schema check, the battlemap lookup, then the floor backfill
FloorPrefixError(s, battlemapId) ==
    IF ~ensureBattlemapMutator(s) THEN "forbidden"
    ELSE IF ~supportsBattlemapImages THEN "unsupported"
    ELSE getBattlemapOrRespond(battlemapId)

\* respond with an error after ensureBattlemapHasAtLeastOneImage has run
RejectedAfterEnsure(battlemapId, e, error) ==
    Outcome(order, [maps EXCEPT ![battlemapId] = e.battlemap], activeBattlemapId,
            e.uuid, nextCoverId, Failure(error), <<>>, e.tasks)

\* socket.on('battlemap:set-active-image')
SetActiveImageOutcome(s, battlemapId, imageId) ==
    IF FloorPrefixError(s, battlemapId) # "none"
    THEN Rejected(FloorPrefixError(s, battlemapId))
    ELSE LET e == ensureBattlemapHasAtLeastOneImage(maps[battlemapId], nextUuid)
             image == getBattlemapImageById(e.battlemap, imageId)
             battlemap == [e.battlemap EXCEPT !.activeImageId = imageId,
                                              !.mapPath = image.mapPath]
             maps2 == [maps EXCEPT ![battlemapId] = battlemap]
         IN  IF imageId = 0 THEN RejectedAfterEnsure(battlemapId, e, "invalid-image-id")
             ELSE IF image.id = 0 THEN RejectedAfterEnsure(battlemapId, e, "image-not-found")
             ELSE Outcome(order, maps2, activeBattlemapId, e.uuid, nextCoverId, Ok,
                          emitBattlemapUpdate(maps2, battlemapId),
                          e.tasks \o <<Task("persist active battlemap image",
                                            [battlemapId |-> battlemapId])>>)

AddImageOutcomeKeepsActive(s, battlemapId, name) ==
    IF FloorPrefixError(s, battlemapId) # "none"
    THEN Rejected(FloorPrefixError(s, battlemapId))
    ELSE LET e == ensureBattlemapHasAtLeastOneImage(maps[battlemapId], nextUuid)
             image == NewImage(e.uuid,
                               NameOr(name, FloorName(Len(e.battlemap.images) + 1)),
                               NULL, Len(e.battlemap.images))
             maps2 == [maps EXCEPT ![battlemapId] =
                          [e.battlemap EXCEPT !.images = Append(@, image)]]
         IN  Outcome(order, maps2, activeBattlemapId, e.uuid + 1, nextCoverId,
                     [ok |-> TRUE, imageId |-> e.uuid],
                     emitBattlemapUpdate(maps2, battlemapId), e.tasks)

\* socket.on('battlemap:add-image')
AddImageOutcome(s, battlemapId, name) ==
    IF FloorPrefixError(s, battlemapId) # "none"
    THEN Rejected(FloorPrefixError(s, battlemapId))
    ELSE LET e == ensureBattlemapHasAtLeastOneImage(maps[battlemapId], nextUuid)
             imageId == e.uuid
             image == NewImage(imageId,
                               NameOr(name, FloorName(Len(e.battlemap.images) + 1)),
                               NULL, Len(e.battlemap.images))
             battlemap == [e.battlemap EXCEPT !.images = Append(@, image),
                                              !.activeImageId = imageId,
                                              !.mapPath = NULL]
             maps2 == [maps EXCEPT ![battlemapId] = battlemap]
         IN  Outcome(order, maps2, activeBattlemapId, e.uuid + 1, nextCoverId,
                     [ok |-> TRUE, imageId |-> imageId],
                     emitBattlemapUpdate(maps2, battlemapId),
                     e.tasks \o <<Task("insert battlemap image",
                                       [battlemapId |-> battlemapId, image |-> image])>>)

\* socket.on('battlemap:rename-image')
RenameImageOutcome(s, battlemapId, imageId, name) ==
    IF FloorPrefixError(s, battlemapId) # "none"
    THEN Rejected(FloorPrefixError(s, battlemapId))
    ELSE LET e == ensureBattlemapHasAtLeastOneImage(maps[battlemapId], nextUuid)
             image == getBattlemapImageById(e.battlemap, imageId)
             trimmedName == NameOr(name, "Floor")
             images2 == [i \in 1..Len(e.battlemap.images) |->
                           IF e.battlemap.images[i].id = imageId
                              /\ \A j \in 1..(i - 1) : e.battlemap.images[j].id # imageId
                           THEN [e.battlemap.images[i] EXCEPT !.name = trimmedName]
                           ELSE e.battlemap.images[i]]
             maps2 == [maps EXCEPT ![battlemapId] = [e.battlemap EXCEPT !.images = images2]]
         IN  IF imageId = 0 THEN RejectedAfterEnsure(battlemapId, e, "invalid-image-id")
             ELSE IF image.id = 0 THEN RejectedAfterEnsure(battlemapId, e, "image-not-found")
             ELSE Outcome(order, maps2, activeBattlemapId, e.uuid, nextCoverId, Ok,
                          emitBattlemapUpdate(maps2, battlemapId),
                          e.tasks \o <<Task("rename battlemap image",
                                            [imageId |-> imageId, name |-> trimmedName])>>)

RECURSIVE ImagesWithout(_, _)
\* images.filter((img) => img.id !== imageId)
ImagesWithout(images, imageId) ==
    IF images = <<>> THEN <<>>
    ELSE IF Head(images).id # imageId
         THEN <<Head(images)>> \o ImagesWithout(Tail(images), imageId)
         ELSE ImagesWithout(Tail(images), imageId)

DeleteImageOutcomeNoGuard(s, battlemapId, imageId) ==
    LET remaining == ImagesWithout(maps[battlemapId].images, imageId)
        battlemap == [maps[battlemapId] EXCEPT
                        !.images = remaining,
                        !.activeImageId = IF remaining = <<>> THEN 0
                                          ELSE remaining[1].id]
    IN  IF FloorPrefixError(s, battlemapId) # "none"
        THEN Rejected(FloorPrefixError(s, battlemapId))
        ELSE Outcome(order, [maps EXCEPT ![battlemapId] = battlemap],
                     activeBattlemapId, nextUuid, nextCoverId, Ok, <<>>, <<>>)

\* A delete-image that leaves the covers of the deleted floor in memory
DeleteImageOutcomeKeepsCovers(s, battlemapId, imageId) ==
    IF FloorPrefixError(s, battlemapId) # "none"
    THEN Rejected(FloorPrefixError(s, battlemapId))
    ELSE LET e == ensureBattlemapHasAtLeastOneImage(maps[battlemapId], nextUuid)
             existing == getBattlemapImageById(e.battlemap, imageId)
             remaining == ImagesWithout(e.battlemap.images, imageId)
             wasActive == e.battlemap.activeImageId = imageId
             battlemap == [e.battlemap EXCEPT
                             !.images = remaining,
                             !.activeImageId = IF wasActive THEN remaining[1].id ELSE @,
                             !.mapPath = IF wasActive THEN remaining[1].mapPath ELSE @]
             maps2 == [maps EXCEPT ![battlemapId] = battlemap]
         IN  IF imageId = 0 THEN RejectedAfterEnsure(battlemapId, e, "invalid-image-id")
             ELSE IF existing.id = 0
             THEN RejectedAfterEnsure(battlemapId, e, "image-not-found")
             ELSE IF remaining = <<>>
             THEN RejectedAfterEnsure(battlemapId, e, "cannot-delete-last-image")
             ELSE Outcome(order, maps2, activeBattlemapId, e.uuid, nextCoverId, Ok,
                          emitBattlemapUpdate(maps2, battlemapId),
                          e.tasks \o <<Task("delete battlemap image",
                                            [battlemapId |-> battlemapId,
                                             imageId |-> imageId])>>)

\* socket.on('battlemap:delete-image')
DeleteImageOutcome(s, battlemapId, imageId) ==
    IF FloorPrefixError(s, battlemapId) # "none"
    THEN Rejected(FloorPrefixError(s, battlemapId))
    ELSE LET e == ensureBattlemapHasAtLeastOneImage(maps[battlemapId], nextUuid)
             existing == getBattlemapImageById(e.battlemap, imageId)
             remaining == ImagesWithout(e.battlemap.images, imageId)
             covers2 == IF supportsBattlemapCoverImageId
                        THEN [k \in {k \in DOMAIN e.battlemap.covers :
                                        e.battlemap.covers[k].imageId # imageId} |->
                                e.battlemap.covers[k]]
                        ELSE e.battlemap.covers
             wasActive == e.battlemap.activeImageId = imageId
             battlemap == [e.battlemap EXCEPT
                             !.images = remaining,
                             !.covers = covers2,
                             !.activeImageId = IF wasActive THEN remaining[1].id ELSE @,
                             !.mapPath = IF wasActive THEN remaining[1].mapPath ELSE @]
             maps2 == [maps EXCEPT ![battlemapId] = battlemap]
         IN  IF imageId = 0 THEN RejectedAfterEnsure(battlemapId, e, "invalid-image-id")
             ELSE IF existing.id = 0
             THEN RejectedAfterEnsure(battlemapId, e, "image-not-found")
             ELSE IF remaining = <<>>
             THEN RejectedAfterEnsure(battlemapId, e, "cannot-delete-last-image")
             ELSE Outcome(order, maps2, activeBattlemapId, e.uuid, nextCoverId, Ok,
                          emitBattlemapUpdate(maps2, battlemapId),
                          e.tasks \o <<Task("delete battlemap image",
                                            [battlemapId |-> battlemapId,
                                             imageId |-> imageId])>>)

\* A set-active that changes the active battlemap and tells no one
SetActiveOutcomeSilent(s, battlemapId) ==
    IF ~ensureBattlemapMutator(s) THEN Rejected("forbidden")
    ELSE IF battlemapId = 0 \/ battlemapId \notin DOMAIN maps
    THEN Rejected("battlemap-not-found")
    ELSE Outcome(order, maps, battlemapId, nextUuid, nextCoverId, Ok, <<>>, <<>>)

\* socket.on('battlemap:set-active')
SetActiveOutcome(s, battlemapId) ==
    IF ~ensureBattlemapMutator(s) THEN Rejected("forbidden")
    ELSE IF battlemapId = 0 \/ battlemapId \notin DOMAIN maps
    THEN Rejected("battlemap-not-found")
    ELSE Outcome(order, maps, battlemapId, nextUuid, nextCoverId, Ok,
                 IF activeBattlemapId # battlemapId
                 THEN broadcastActiveBattlemap(battlemapId) ELSE <<>>,
                 <<>>)

RenameOutcomeUngated(s, battlemapId, name) ==
    IF getBattlemapOrRespond(battlemapId) # "none"
    THEN Rejected(getBattlemapOrRespond(battlemapId))
    ELSE LET maps2 == [maps EXCEPT ![battlemapId].name = NameOr(name, "Untitled Battlemap")]
         IN  Outcome(order, maps2, activeBattlemapId, nextUuid, nextCoverId, Ok,
                     broadcastBattlemapList(order, maps2)
                       \o emitBattlemapUpdate(maps2, battlemapId),
                     <<Task("update battlemap name", [battlemapId |-> battlemapId])>>)

\* socket.on('battlemap:rename')
RenameOutcome(s, battlemapId, name) ==
    IF ~ensureBattlemapMutator(s) THEN Rejected("forbidden")
    ELSE IF getBattlemapOrRespond(battlemapId) # "none"
    THEN Rejected(getBattlemapOrRespond(battlemapId))
    ELSE LET maps2 == [maps EXCEPT ![battlemapId].name = NameOr(name, "Untitled Battlemap")]
         IN  Outcome(order, maps2, activeBattlemapId, nextUuid, nextCoverId, Ok,
                     broadcastBattlemapList(order, maps2)
                       \o emitBattlemapUpdate(maps2, battlemapId),
                     <<Task("update battlemap name", [battlemapId |-> battlemapId])>>)

\* The reorder loop: every id is a known battlemap id not seen before.  An
\* entry that is not a string is modelled by 0.
ValidOrderLoose(orderedIds) ==
    \A i \in 1..Len(orderedIds) : orderedIds[i] \in DOMAIN maps

ValidOrder(orderedIds) ==
    \A i \in 1..Len(orderedIds) :
        /\ orderedIds[i] # 0
        /\ orderedIds[i] \in DOMAIN maps
        /\ \A j \in 1..(i - 1) : orderedIds[j] # orderedIds[i]

\* socket.on('battlemap:reorder'); isArray = Array.isArray(payload.orderedIds)
ReorderOutcome(s, isArray, orderedIds) ==
    IF ~ensureBattlemapMutator(s) THEN Rejected("forbidden")
    ELSE IF ~isArray \/ Len(orderedIds) # Len(order)
    THEN Rejected("invalid-order")
    ELSE IF ~ValidOrder(orderedIds) THEN Rejected("invalid-order")
    ELSE Outcome(orderedIds, maps, activeBattlemapId, nextUuid, nextCoverId, Ok,
                 broadcastBattlemapList(orderedIds, maps),
                 <<Task("persist battlemap order", [order |-> orderedIds])>>)

\* socket.on('battlemap:update-map-path'); targetImageId = 0 when the payload
\* names no floor
UpdateMapPathOutcome(s, battlemapId, targetImageId, mapPath) ==
    IF ~ensureBattlemapMutator(s) THEN Rejected("forbidden")
    ELSE IF getBattlemapOrRespond(battlemapId) # "none"
    THEN Rejected(getBattlemapOrRespond(battlemapId))
    ELSE
    LET sanitizedPath == PathOrNull(mapPath)
        task == <<Task("update battlemap map path",
                       [battlemapId |-> battlemapId, targetImageId |-> targetImageId,
                        mapPath |-> sanitizedPath])>>
    IN
    IF supportsBattlemapImages
    THEN LET e == ensureBattlemapHasAtLeastOneImage(maps[battlemapId], nextUuid)
             bm == e.battlemap
             effectiveTargetId ==
                 IF targetImageId # 0 THEN targetImageId
                 ELSE IF bm.activeImageId # 0 THEN bm.activeImageId
                 ELSE IF bm.images # <<>> THEN bm.images[1].id ELSE 0
             image == getBattlemapImageById(bm, effectiveTargetId)
             images2 == [i \in 1..Len(bm.images) |->
                           IF bm.images[i].id = image.id
                              /\ \A j \in 1..(i - 1) : bm.images[j].id # image.id
                           THEN [bm.images[i] EXCEPT !.mapPath = sanitizedPath]
                           ELSE bm.images[i]]
             shouldResetGridData == targetImageId = 0 /\ Len(bm.images) <= 1
             battlemap == [bm EXCEPT
                             !.images = images2,
                             !.mapPath = IF bm.activeImageId = image.id
                                         THEN sanitizedPath ELSE @,
                             !.gridData = IF shouldResetGridData THEN cloneGridData ELSE @]
             maps2 == [maps EXCEPT ![battlemapId] = battlemap]
         IN  IF effectiveTargetId = 0 \/ image.id = 0
             THEN RejectedAfterEnsure(battlemapId, e, "image-not-found")
             ELSE Outcome(order, maps2, activeBattlemapId, e.uuid, nextCoverId, Ok,
                          broadcastBattlemapList(order, maps2)
                            \o emitBattlemapUpdate(maps2, battlemapId),
                          e.tasks \o task)
    ELSE LET maps2 == [maps EXCEPT ![battlemapId].mapPath = sanitizedPath,
                                   ![battlemapId].gridData = cloneGridData]
         IN  Outcome(order, maps2, activeBattlemapId, nextUuid, nextCoverId, Ok,
                     broadcastBattlemapList(order, maps2)
                       \o emitBattlemapUpdate(maps2, battlemapId),
                     task)

\* socket.on('battlemap:update-settings'); settings holds the payload fields
\* that are finite numbers
UpdateSettingsOutcome(s, battlemapId, settings) ==
    IF ~ensureBattlemapMutator(s) THEN Rejected("forbidden")
    ELSE IF getBattlemapOrRespond(battlemapId) # "none"
    THEN Rejected(getBattlemapOrRespond(battlemapId))
    ELSE LET bm == maps[battlemapId]
             battlemap ==
                 [bm EXCEPT
                    !.gridScale = IF "gridScale" \in DOMAIN settings
                                  THEN settings.gridScale ELSE @,
                    !.gridOffsetX = IF "gridOffsetX" \in DOMAIN settings
                                    THEN settings.gridOffsetX ELSE @,
                    !.gridOffsetY = IF "gridOffsetY" \in DOMAIN settings
                                    THEN settings.gridOffsetY ELSE @]
             maps2 == [maps EXCEPT ![battlemapId] = battlemap]
         IN  Outcome(order, maps2, activeBattlemapId, nextUuid, nextCoverId, Ok,
                     emitBattlemapUpdate(maps2, battlemapId),
                     <<Task("update battlemap settings", [battlemapId |-> battlemapId])>>)

\* socket.on('battlemap:update-grid-data')
UpdateGridDataOutcome(s, battlemapId, gridData) ==
    IF ~ensureBattlemapMutator(s) THEN Rejected("forbidden")
    ELSE IF getBattlemapOrRespond(battlemapId) # "none"
    THEN Rejected(getBattlemapOrRespond(battlemapId))
    ELSE LET maps2 == [maps EXCEPT ![battlemapId].gridData = sanitizeGridData(gridData)]
         IN  Outcome(order, maps2, activeBattlemapId, nextUuid, nextCoverId, Ok,
                     emitBattlemapUpdate(maps2, battlemapId),
                     <<Task("update battlemap grid data", [battlemapId |-> battlemapId])>>)

\* A delete that forgets the battlemap and leaves its id in the order
DeleteOutcomeKeepsOrder(s, battlemapId) ==
    IF ~ensureBattlemapMutator(s) THEN Rejected("forbidden")
    ELSE IF getBattlemapOrRespond(battlemapId) # "none"
    THEN Rejected(getBattlemapOrRespond(battlemapId))
    ELSE LET maps2 == Without(maps, battlemapId)
             active2 == IF activeBattlemapId = battlemapId
                        THEN ensureActiveBattlemap(activeBattlemapId, order, maps2)
                        ELSE activeBattlemapId
         IN  Outcome(order, maps2, active2, nextUuid, nextCoverId, Ok,
                     broadcastBattlemapList(order, maps2)
                       \o <<Msg(ToAll, "battlemap:deleted", battlemapId)>>,
                     <<Task("delete battlemap", [battlemapId |-> battlemapId])>>)

\* socket.on('battlemap:delete')
DeleteOutcome(s, battlemapId) ==
    IF ~ensureBattlemapMutator(s) THEN Rejected("forbidden")
    ELSE IF getBattlemapOrRespond(battlemapId) # "none"
    THEN Rejected(getBattlemapOrRespond(battlemapId))
    ELSE LET maps2 == Without(maps, battlemapId)
             order2 == FilterSeq(order, Range(order) \ {battlemapId})
             wasActive == activeBattlemapId = battlemapId
             active2 == IF wasActive
                        THEN ensureActiveBattlemap(activeBattlemapId, order2, maps2)
                        ELSE activeBattlemapId
         IN  Outcome(order2, maps2, active2, nextUuid, nextCoverId, Ok,
                     broadcastBattlemapList(order2, maps2)
                       \o <<Msg(ToAll, "battlemap:deleted", battlemapId)>>
                       \o (IF wasActive THEN broadcastActiveBattlemap(active2) ELSE <<>>),
                     <<Task("persist battlemap order", [order |-> order2]),
                       Task("delete battlemap", [battlemapId |-> battlemapId])>>)

\* findCoverEntry: [key, imageId] of the entry, or NoEntry
NoEntry == [key |-> CoverKey(0, NULL), imageId |-> 0, found |-> FALSE]
findCoverEntry(battlemap, coverId, imageId) ==
    IF coverId = NULL \/ coverId = "" THEN NoEntry
    ELSE IF supportsBattlemapCoverImageId
    THEN LET effectiveImageId == IF imageId # 0 THEN imageId ELSE battlemap.activeImageId
             key == CoverKey(effectiveImageId, coverId)
             scan == {k \in DOMAIN battlemap.covers :
                         /\ battlemap.covers[k].id = coverId
                         /\ battlemap.covers[k].imageId = effectiveImageId}
         IN  IF effectiveImageId = 0 THEN NoEntry
             ELSE IF key \in DOMAIN battlemap.covers
             THEN [key |-> key, imageId |-> effectiveImageId, found |-> TRUE]
             ELSE IF scan # {}
             THEN [key |-> CHOOSE k \in scan : TRUE, imageId |-> effectiveImageId,
                   found |-> TRUE]
             ELSE NoEntry
    ELSE IF CoverKey(0, coverId) \in DOMAIN battlemap.covers
         THEN [key |-> CoverKey(0, coverId), imageId |-> 0, found |-> TRUE]
         ELSE NoEntry

\* socket.on('battlemap:add-cover'); requestedImageId = 0 when the payload
\* names no floor; coverInput holds the fields of payload.cover of the
\* expected type
AddCoverOutcome(s, battlemapId, requestedImageId, coverInput) ==
    IF ~ensureBattlemapMutator(s) THEN Rejected("forbidden")
    ELSE IF getBattlemapOrRespond(battlemapId) # "none"
    THEN Rejected(getBattlemapOrRespond(battlemapId))
    ELSE LET e == ensureBattlemapHasAtLeastOneImage(maps[battlemapId], nextUuid)
             generated == ~("id" \in DOMAIN coverInput /\ coverInput.id # "")
             coverId == IF generated THEN generateCoverId(nextCoverId) ELSE coverInput.id
             sanitized == sanitizeCover(Spread(coverInput, [id |-> coverId]))
             scoped == supportsBattlemapCoverImageId /\ e.battlemap.activeImageId # 0
             effectiveImageId ==
                 IF ~scoped THEN 0
                 ELSE IF requestedImageId # 0 THEN requestedImageId
                 ELSE e.battlemap.activeImageId
             battlemap == [e.battlemap EXCEPT
                             !.covers = With(@, CoverKey(effectiveImageId, sanitized.id),
                                             StoredCover(sanitized, effectiveImageId))]
             maps2 == [maps EXCEPT ![battlemapId] = battlemap]
         IN  Outcome(order, maps2, activeBattlemapId, e.uuid,
                     IF generated THEN nextCoverId + 1 ELSE nextCoverId,
                     [ok |-> TRUE, coverId |-> sanitized.id],
                     emitBattlemapUpdate(maps2, battlemapId),
                     e.tasks \o <<Task("upsert cover",
                                       [battlemapId |-> battlemapId, cover |-> sanitized,
                                        requestedImageId |-> requestedImageId])>>)

\* socket.on('battlemap:update-cover'); updates holds the fields of
\* payload.updates (a numeric field sent with another type is read as 0 by
\* sanitizeCover, and is modelled by 0)
UpdateCoverOutcome(s, battlemapId, coverId, requestedImageId, updates) ==
    IF ~ensureBattlemapMutator(s) THEN Rejected("forbidden")
    ELSE IF getBattlemapOrRespond(battlemapId) # "none"
    THEN Rejected(getBattlemapOrRespond(battlemapId))
    ELSE LET bm == maps[battlemapId]
             entry == findCoverEntry(bm, coverId, requestedImageId)
             existing == bm.covers[entry.key]
             sanitized == sanitizeCover(
                             Spread(Spread(StripImageId(existing), updates),
                                    [id |-> coverId]))
             stored == StoredCover(sanitized,
                          IF supportsBattlemapCoverImageId THEN entry.imageId ELSE 0)
             maps2 == [maps EXCEPT ![battlemapId].covers = With(@, entry.key, stored)]
         IN  IF ~entry.found THEN Rejected("cover-not-found")
             ELSE Outcome(order, maps2, activeBattlemapId, nextUuid, nextCoverId, Ok,
                          emitBattlemapUpdate(maps2, battlemapId),
                          <<Task("update cover",
                                 [battlemapId |-> battlemapId, cover |-> sanitized,
                                  imageId |-> entry.imageId])>>)

\* socket.on('battlemap:remove-cover')
RemoveCoverOutcome(s, battlemapId, coverId, requestedImageId) ==
    IF ~ensureBattlemapMutator(s) THEN Rejected("forbidden")
    ELSE IF getBattlemapOrRespond(battlemapId) # "none"
    THEN Rejected(getBattlemapOrRespond(battlemapId))
    ELSE LET bm == maps[battlemapId]
             entry == findCoverEntry(bm, coverId, requestedImageId)
             maps2 == [maps EXCEPT ![battlemapId].covers = Without(@, entry.key)]
         IN  IF ~entry.found THEN Rejected("cover-not-found")
             ELSE Outcome(order, maps2, activeBattlemapId, nextUuid, nextCoverId, Ok,
                          emitBattlemapUpdate(maps2, battlemapId),
                          <<Task("delete cover", [coverId |-> coverId])>>)

----------------------------------------------------------------------------
(* The gateway handlers as actions *)

Apply(r) ==
    /\ order' = r.order
    /\ maps' = r.maps
    /\ activeBattlemapId' = r.active
    /\ nextUuid' = r.uuid
    /\ nextCoverId' = r.coverId
    /\ ack' = r.ack
    /\ emitted' = r.emitted
    /\ scheduled' = r.scheduled

\* One battlemap event from the open socket s, served to completion
Handle(s, request, r) ==
    /\ s \in OpenSockets
    /\ Apply(r)
    /\ req' = request
    /\ UNCHANGED <<flagVars, presenceVars, sockets, nextTokenId>>

\* The same, the runs of the background tasks it scheduled left aside
Serve(s, request, r) ==
    /\ Handle(s, request, r)
    /\ UNCHANGED <<storeVars, phase>>

\* The same, while the id counters stay within their bounds
Gateway(s, request, r) ==
    /\ r.uuid <= MaxUuid + 1
    /\ r.coverId <= MaxCovers + 1
    /\ Serve(s, request, r)

BattlemapGet(s, battlemapId) ==
    Gateway(s, [op |-> "battlemap:get", socket |-> s, battlemapId |-> battlemapId],
            GetOutcome(battlemapId))

BattlemapCreate(s, name, mapPath) ==
    Gateway(s, [op |-> "battlemap:create", socket |-> s],
            CreateOutcome(s, name, mapPath))

BattlemapSetActiveImage(s, battlemapId, imageId) ==
    Gateway(s, [op |-> "battlemap:set-active-image", socket |-> s,
                battlemapId |-> battlemapId, imageId |-> imageId],
            SetActiveImageOutcome(s, battlemapId, imageId))

BattlemapAddImage(s, battlemapId, name) ==
    Gateway(s, [op |-> "battlemap:add-image", socket |-> s,
                battlemapId |-> battlemapId],
            AddImageOutcome(s, battlemapId, name))

BattlemapRenameImage(s, battlemapId, imageId, name) ==
    Gateway(s, [op |-> "battlemap:rename-image", socket |-> s,
                battlemapId |-> battlemapId, imageId |-> imageId],
            RenameImageOutcome(s, battlemapId, imageId, name))

BattlemapDeleteImage(s, battlemapId, imageId) ==
    Gateway(s, [op |-> "battlemap:delete-image", socket |-> s,
                battlemapId |-> battlemapId, imageId |-> imageId],
            DeleteImageOutcome(s, battlemapId, imageId))

BattlemapSetActive(s, battlemapId) ==
    Gateway(s, [op |-> "battlemap:set-active", socket |-> s,
                battlemapId |-> battlemapId],
            SetActiveOutcome(s, battlemapId))

BattlemapRename(s, battlemapId, name) ==
    Gateway(s, [op |-> "battlemap:rename", socket |-> s,
                battlemapId |-> battlemapId],
            RenameOutcome(s, battlemapId, name))

BattlemapReorder(s, isArray, orderedIds) ==
    Gateway(s, [op |-> "battlemap:reorder", socket |-> s,
                isArray |-> isArray, orderedIds |-> orderedIds],
            ReorderOutcome(s, isArray, orderedIds))

BattlemapUpdateMapPath(s, battlemapId, targetImageId, mapPath) ==
    Gateway(s, [op |-> "battlemap:update-map-path", socket |-> s,
                battlemapId |-> battlemapId, imageId |-> targetImageId],
            UpdateMapPathOutcome(s, battlemapId, targetImageId, mapPath))

BattlemapUpdateSettings(s, battlemapId, settings) ==
    Gateway(s, [op |-> "battlemap:update-settings", socket |-> s,
                battlemapId |-> battlemapId],
            UpdateSettingsOutcome(s, battlemapId, settings))

BattlemapUpdateGridData(s, battlemapId, gridData) ==
    Gateway(s, [op |-> "battlemap:update-grid-data", socket |-> s,
                battlemapId |-> battlemapId],
            UpdateGridDataOutcome(s, battlemapId, gridData))

BattlemapDelete(s, battlemapId) ==
    Gateway(s, [op |-> "battlemap:delete", socket |-> s,
                battlemapId |-> battlemapId],
            DeleteOutcome(s, battlemapId))

BattlemapAddCover(s, battlemapId, requestedImageId, coverInput) ==
    Gateway(s, [op |-> "battlemap:add-cover", socket |-> s,
                battlemapId |-> battlemapId, imageId |-> requestedImageId,
                cover |-> coverInput],
            AddCoverOutcome(s, battlemapId, requestedImageId, coverInput))

BattlemapUpdateCover(s, battlemapId, coverId, requestedImageId, updates) ==
    Gateway(s, [op |-> "battlemap:update-cover", socket |-> s,
                battlemapId |-> battlemapId, imageId |-> requestedImageId,
                coverId |-> coverId, updates |-> updates],
            UpdateCoverOutcome(s, battlemapId, coverId, requestedImageId, updates))

BattlemapRemoveCover(s, battlemapId, coverId, requestedImageId) ==
    Gateway(s, [op |-> "battlemap:remove-cover", socket |-> s,
                battlemapId |-> battlemapId, imageId |-> requestedImageId,
                coverId |-> coverId],
            RemoveCoverOutcome(s, battlemapId, coverId, requestedImageId))

----------------------------------------------------------------------------
(* Inputs shared by the specifications *)

\* An id no battlemap, floor or cover ever has
UnknownId == StoreId(0)

BattlemapIds == DOMAIN maps \cup {0, UnknownId}

ImageIdsOf(battlemapId) ==
    IF battlemapId \in DOMAIN maps
    THEN {maps[battlemapId].images[i].id : i \in 1..Len(maps[battlemapId].images)}
    ELSE {}

AllImageIds == UNION {ImageIdsOf(b) : b \in DOMAIN maps}

ImageIds == AllImageIds \cup {0, UnknownId}

Store(battlemapRows, imageRows, coverRows) ==
    [battlemaps |-> battlemapRows, images |-> imageRows, covers |-> coverRows]

----------------------------------------------------------------------------
(* Spec: floors.  One host connection works on the floors of the battlemaps *)
(* a store left by earlier runs holds.                                      *)

\* An empty battlemaps table: the load seeds the default battlemap
EmptyStore == Store(<<>>, <<>>, <<>>)

\* A battlemap written before the floors table existed: no floor rows
UnmigratedStore ==
    Store(<<BattlemapRow(StoreId(1), "Cave", "a.png", 0)>>, <<>>, <<>>)

\* A migrated battlemap with its one floor
OneFloorStore ==
    Store(<<BattlemapRow(StoreId(1), "Cave", "a.png", StoreId(2))>>,
          <<ImageRow(StoreId(2), StoreId(1), "Floor 1", "a.png", 0)>>, <<>>)

\* Two floors, the second one active; the first has no image yet
TwoFloorStore ==
    Store(<<BattlemapRow(StoreId(1), "Cave", "b.png", StoreId(3))>>,
          <<ImageRow(StoreId(2), StoreId(1), "Floor 1", NULL, 0),
            ImageRow(StoreId(3), StoreId(1), "Floor 2", "b.png", 1)>>, <<>>)

\* The floor left after floors 1 and 2 of three were deleted
LastFloorStore ==
    Store(<<BattlemapRow(StoreId(1), "Cave", NULL, StoreId(2))>>,
          <<ImageRow(StoreId(2), StoreId(1), "Floor 3", NULL, 2)>>, <<>>)

FloorStores == {UnmigratedStore, OneFloorStore, TwoFloorStore, LastFloorStore}

\* The floors table exists; the active_image_id column may not
Init ==
    \E store \in FloorStores, hasActiveImageId \in BOOLEAN :
        loadBattlemapStateFromSupabase(store, TRUE, hasActiveImageId, TRUE)

HostData == [isDisplay |-> TRUE]

\* The floors a request can name: those of the battlemap, and an unknown one
FloorTargets(b) == ImageIdsOf(b) \cup {UnknownId}

Next ==
    \/ DOMAIN sockets = {} /\ Connection
    \/ \E s \in DOMAIN sockets : UserIdentify(s, HostData)
    \/ \E s \in DOMAIN sockets, b \in DOMAIN maps : BattlemapGet(s, b)
    \/ \E s \in DOMAIN sockets, b \in DOMAIN maps : \E i \in FloorTargets(b) :
          BattlemapSetActiveImage(s, b, i)
    \/ \E s \in DOMAIN sockets, b \in DOMAIN maps : BattlemapAddImage(s, b, NULL)
    \/ \E s \in DOMAIN sockets, b \in DOMAIN maps : \E i \in FloorTargets(b) :
          BattlemapDeleteImage(s, b, i)
    \/ \E s \in DOMAIN sockets, b \in DOMAIN maps : \E i \in ImageIdsOf(b) \cup {0} :
          BattlemapUpdateMapPath(s, b, i, "c.png")

Spec == Init /\ [][Next]_vars

\* The last handler acked { ok: true, ... }
Acked == "ok" \in DOMAIN ack /\ ack.ok

\* The last handler acked { ok: false, error }
AckedError(error) == ack = Failure(error)

SortIndexes(battlemap) ==
    {battlemap.images[i].sortIndex : i \in 1..Len(battlemap.images)}

\* C5: a delete-floor request from a mutator that targets the only floor of a
\* battlemap is rejected (cannot-delete-last-image, of the invalid-input
\* kind) and leaves the battlemap's floors, active floor, map path and covers
\* as they were; with two floors, deleting either one is acked ok and
\* leaves exactly the other.
FloorDeletionGuard ==
    [][(/\ req'.op = "battlemap:delete-image"
        /\ ensureBattlemapMutator(req'.socket)
        /\ req'.battlemapId \in DOMAIN maps
        /\ req'.imageId \in ImageIdsOf(req'.battlemapId))
       => LET b == req'.battlemapId
          IN  /\ Len(maps[b].images) = 1
                    => /\ ack' = Failure("cannot-delete-last-image")
                       /\ maps'[b].images = maps[b].images
                       /\ maps'[b].activeImageId = maps[b].activeImageId
                       /\ maps'[b].mapPath = maps[b].mapPath
                       /\ maps'[b].covers = maps[b].covers
              /\ Len(maps[b].images) = 2
                    => /\ ack' = Ok
                       /\ maps'[b].images = ImagesWithout(maps[b].images, req'.imageId)
                       /\ Len(maps'[b].images) = 1]_vars

\* C5 witness: the only floor of a battlemap was targeted and the request
\* was turned down
SoleFloorDeletionRejected ==
    /\ req.op = "battlemap:delete-image"
    /\ AckedError("cannot-delete-last-image")
    /\ maps[req.battlemapId].images # <<>>
    /\ maps[req.battlemapId].images[1].id = req.imageId

\* C6: when delete-floor removes the active floor, the new active floor is a
\* remaining floor whose sort index is the smallest; deleting another floor
\* leaves the active floor id unchanged.
ActiveAfterDeleteHasSmallestSortIndex ==
    [][(req'.op = "battlemap:delete-image" /\ ack' = Ok)
       => LET b == req'.battlemapId
              active == getBattlemapImageById(maps'[b], maps'[b].activeImageId)
          IN  IF maps[b].activeImageId = req'.imageId
              THEN /\ active.id # 0
                   /\ \A k \in SortIndexes(maps'[b]) : active.sortIndex <= k
              ELSE maps'[b].activeImageId = maps[b].activeImageId]_vars

\* C10: a battlemap that has floors carries, as mapPath, the map path of its
\* active floor (null when that floor has no image).
MapPathMirrorsActiveFloor ==
    \A b \in DOMAIN maps :
        maps[b].images # <<>>
        => maps[b].mapPath =
             getBattlemapImageById(maps[b], maps[b].activeImageId).mapPath

----------------------------------------------------------------------------
(* SpecRealized: a host works on a battlemap that starts without floor     *)
(* rows (an unmigrated row) and on the ones it creates.                     *)

CoverIdsOf(battlemapId) ==
    {maps[battlemapId].covers[k].id : k \in DOMAIN maps[battlemapId].covers}

\* The cover of the spec's example
CornerCover == [x |-> 90, y |-> 90, width |-> 30, height |-> 30]

InitRealized == loadBattlemapStateFromSupabase(UnmigratedStore, TRUE, TRUE, TRUE)

NextRealized ==
    \/ DOMAIN sockets = {} /\ Connection
    \/ \E s \in DOMAIN sockets : UserIdentify(s, HostData)
    \/ \E s \in DOMAIN sockets, b \in DOMAIN maps : BattlemapGet(s, b)
    \/ \E s \in DOMAIN sockets : BattlemapCreate(s, "Keep", NULL)
    \/ \E s \in DOMAIN sockets, b \in DOMAIN maps : \E i \in ImageIdsOf(b) :
          BattlemapSetActiveImage(s, b, i)
    \/ \E s \in DOMAIN sockets, b \in DOMAIN maps : BattlemapAddImage(s, b, NULL)
    \/ \E s \in DOMAIN sockets, b \in DOMAIN maps \cap {StoreId(1)} :
          BattlemapRenameImage(s, b, maps[b].activeImageId, "Floor 1")
    \/ \E s \in DOMAIN sockets, b \in DOMAIN maps : \E i \in ImageIdsOf(b) :
          BattlemapDeleteImage(s, b, i)
    \/ \E s \in DOMAIN sockets, b \in DOMAIN maps \cap {StoreId(1)} :
          BattlemapRename(s, b, "Keep")
    \/ \E s \in DOMAIN sockets, b \in DOMAIN maps \cap {StoreId(1)} :
          BattlemapUpdateMapPath(s, b, 0, "c.png")
    \/ \E s \in DOMAIN sockets, b \in DOMAIN maps \cap {StoreId(1)} :
          BattlemapUpdateSettings(s, b, [gridScale |-> 2])
    \/ \E s \in DOMAIN sockets, b \in DOMAIN maps \cap {StoreId(1)} :
          BattlemapAddCover(s, b, 0, Spread(CornerCover, [id |-> "wall"]))
    \/ \E s \in DOMAIN sockets, b \in DOMAIN maps : \E c \in CoverIdsOf(b) :
          BattlemapRemoveCover(s, b, c, 0)

SpecRealized == InitRealized /\ [][NextRealized]_vars

\* The snapshots of battlemap b among the messages a handler emitted
SnapshotsOf(msgs, b) ==
    {msgs[i].payload : i \in {i \in 1..Len(msgs) :
                                 /\ msgs[i].event = "battlemap:updated"
                                 /\ msgs[i].payload.id = b}}

\* C9: with the floors table present, battlemap:create and battlemap:get
\* leave the battlemap with a floor (and send it with one), and no handler
\* takes the last floor from a battlemap that has one: its floor list stays
\* non-empty in the state and in every snapshot sent for it.
RealizedBattlemapKeepsFloor ==
    [][supportsBattlemapImages =>
        /\ (req'.op = "battlemap:get" /\ "ok" \in DOMAIN ack' /\ ack'.ok)
              => /\ maps'[req'.battlemapId].images # <<>>
                 /\ ack'.battlemap.images # <<>>
        /\ (req'.op = "battlemap:create" /\ "ok" \in DOMAIN ack' /\ ack'.ok)
              => /\ maps'[ack'.battlemapId].images # <<>>
                 /\ SnapshotsOf(emitted', ack'.battlemapId) # {}
                 /\ \A snap \in SnapshotsOf(emitted', ack'.battlemapId) :
                       snap.images # <<>>
        /\ \A b \in DOMAIN maps \cap DOMAIN maps' :
              maps[b].images # <<>>
              => /\ maps'[b].images # <<>>
                 /\ \A snap \in SnapshotsOf(emitted', b) : snap.images # <<>>]_vars

\* C9 witness: battlemap:get served a battlemap that had no floor, and the
\* floor it was given has just been refused deletion
BackfilledFloorKept ==
    /\ req.op = "battlemap:delete-image"
    /\ AckedError("cannot-delete-last-image")
    /\ req.battlemapId = StoreId(1)
    /\ maps[StoreId(1)].images # <<>>
    /\ maps[StoreId(1)].images[1].id = 1

----------------------------------------------------------------------------
(* SpecGate: one connection, identified in any of the ways a client can,    *)
(* or not at all, issues every battlemap mutation.                          *)

\* One battlemap with one floor and one cover on that floor
GateStore ==
    Store(<<BattlemapRow(StoreId(1), "Cave", "a.png", StoreId(2))>>,
          <<ImageRow(StoreId(2), StoreId(1), "Floor 1", "a.png", 0)>>,
          <<CoverRow("fog", StoreId(1), StoreId(2),
                     [x |-> 10, y |-> 10, width |-> 20, height |-> 20])>>)

InitGate == loadBattlemapStateFromSupabase(GateStore, TRUE, TRUE, TRUE)

\* The identification messages: a player, a display, a player that asks for
\* the mutator capability, a display that declines it
PlayerData == [persistentUserId |-> "p1"]
EditorData == [persistentUserId |-> "p1", isDisplay |-> FALSE,
               allowBattlemapMutations |-> TRUE]
ViewerData == [isDisplay |-> TRUE, allowBattlemapMutations |-> FALSE]
Identifications == {PlayerData, HostData, EditorData, ViewerData}

\* The requests that name a battlemap name the one the store held
GateTargets == DOMAIN maps \cap {StoreId(1)}

NextGate ==
    \/ DOMAIN sockets = {} /\ Connection
    \/ \E s \in DOMAIN sockets, data \in Identifications : UserIdentify(s, data)
    \/ \E s \in DOMAIN sockets : GraceTimer(s)
    \/ \E s \in DOMAIN sockets : BattlemapCreate(s, "Keep", NULL)
    \/ \E s \in DOMAIN sockets, b \in GateTargets : BattlemapRename(s, b, "Keep")
    \/ \E s \in DOMAIN sockets, b \in GateTargets : BattlemapDelete(s, b)
    \/ \E s \in DOMAIN sockets : BattlemapReorder(s, TRUE, order)
    \/ \E s \in DOMAIN sockets, b \in GateTargets : BattlemapSetActive(s, b)
    \/ \E s \in DOMAIN sockets, b \in GateTargets : BattlemapAddImage(s, b, NULL)
    \/ \E s \in DOMAIN sockets, b \in GateTargets : \E i \in ImageIdsOf(b) \cap {StoreId(2)} :
          BattlemapRenameImage(s, b, i, "Floor 1")
    \/ \E s \in DOMAIN sockets, b \in GateTargets : \E i \in ImageIdsOf(b) :
          BattlemapDeleteImage(s, b, i)
    \/ \E s \in DOMAIN sockets, b \in GateTargets : \E i \in ImageIdsOf(b) \cap {StoreId(2)} :
          BattlemapSetActiveImage(s, b, i)
    \/ \E s \in DOMAIN sockets, b \in GateTargets :
          BattlemapUpdateMapPath(s, b, StoreId(2), "a.png")
    \/ \E s \in DOMAIN sockets, b \in GateTargets :
          BattlemapUpdateSettings(s, b, [gridScale |-> DefaultGridScale])
    \/ \E s \in DOMAIN sockets, b \in GateTargets :
          BattlemapUpdateGridData(s, b, DefaultGridData)
    \/ \E s \in DOMAIN sockets, b \in GateTargets :
          BattlemapAddCover(s, b, 0, Spread(CornerCover, [id |-> "fog"]))
    \/ \E s \in DOMAIN sockets, b \in GateTargets : \E c \in CoverIdsOf(b) :
          BattlemapUpdateCover(s, b, c, 0, [x |-> 95])
    \/ \E s \in DOMAIN sockets, b \in GateTargets : \E c \in CoverIdsOf(b) :
          BattlemapRemoveCover(s, b, c, 0)

SpecGate == InitGate /\ [][NextGate]_vars

\* The capability as the closure of socket s records it
Identified(s)  == sockets[s].userData.id # NULL
HoldsMutator(s) == Identified(s) /\ sockets[s].userData.allowBattlemapMutations

MutatorOps ==
    {"battlemap:create", "battlemap:rename", "battlemap:delete", "battlemap:reorder",
     "battlemap:set-active", "battlemap:add-image", "battlemap:rename-image",
     "battlemap:delete-image", "battlemap:set-active-image",
     "battlemap:update-map-path", "battlemap:update-settings",
     "battlemap:update-grid-data", "battlemap:add-cover", "battlemap:update-cover",
     "battlemap:remove-cover"}

NonMutatorsAreRefused ==
    [][(req'.op \in MutatorOps /\ ~HoldsMutator(req'.socket))
       => /\ ack' = Failure("forbidden")
          /\ emitted' = <<>>
          /\ scheduled' = <<>>
          /\ UNCHANGED <<bmVars, flagVars, presenceVars, sockets, idVars>>]_vars

\* C3 witness: a connection that has not identified yet asked to add a cover
UnidentifiedAddCoverRefused ==
    /\ req.op = "battlemap:add-cover"
    /\ AckedError("forbidden")
    /\ ~Identified(req.socket)

----------------------------------------------------------------------------
(* SpecOrder: a host creates, deletes and reorders battlemaps; the lists it *)
(* sends are the permutations and everything near them.                     *)

OrderStore ==
    Store(<<BattlemapRow(StoreId(1), "Cave", "a.png", StoreId(3)),
            BattlemapRow(StoreId(2), "Keep", NULL, StoreId(4))>>,
          <<ImageRow(StoreId(3), StoreId(1), "Floor 1", "a.png", 0),
            ImageRow(StoreId(4), StoreId(2), "Floor 1", NULL, 0)>>, <<>>)

InitOrder == loadBattlemapStateFromSupabase(OrderStore, TRUE, TRUE, TRUE)

\* What an entry of orderedIds can be: a current id, an unknown id, or (0) a
\* value that is not a string
OrderEntries == DOMAIN maps \cup {UnknownId, 0}

\* The lists of as many entries as there are battlemaps or one fewer, and
\* the current order with one more entry
OrderLists ==
    UNION {[1..n -> OrderEntries] : n \in {n \in {Len(order) - 1, Len(order)} : n >= 0}}
      \cup {Append(order, e) : e \in OrderEntries}

NextOrder ==
    \/ DOMAIN sockets = {} /\ Connection
    \/ \E s \in DOMAIN sockets : UserIdentify(s, HostData)
    \/ \E s \in DOMAIN sockets : BattlemapCreate(s, "Dock", NULL)
    \/ \E s \in DOMAIN sockets, b \in DOMAIN maps : BattlemapDelete(s, b)
    \/ \E s \in DOMAIN sockets, ids \in OrderLists : BattlemapReorder(s, TRUE, ids)
    \/ \E s \in DOMAIN sockets : BattlemapReorder(s, FALSE, <<>>)

SpecOrder == InitOrder /\ [][NextOrder]_vars

\* ids is a duplicate-free list of all current battlemap ids
IsPermutationOfOrder(ids) ==
    /\ Len(ids) = Len(order)
    /\ Range(ids) = Range(order)

\* C4: a battlemap:reorder from a mutator whose orderedIds is not a list, or
\* not a duplicate-free list of all current battlemap ids, is rejected: the
\* battlemaps and their order stay as they were and nothing is emitted; a
\* permutation of the current ids becomes the order.
ReorderAtomicity ==
    [][(req'.op = "battlemap:reorder" /\ HoldsMutator(req'.socket))
       => IF req'.isArray /\ IsPermutationOfOrder(req'.orderedIds)
          THEN /\ ack' = Ok
               /\ order' = req'.orderedIds
               /\ UNCHANGED <<maps, activeBattlemapId>>
          ELSE /\ ack' = Failure("invalid-order")
               /\ emitted' = <<>>
               /\ scheduled' = <<>>
               /\ UNCHANGED bmVars]_vars

\* C4 witness: with two battlemaps or more, a list that lacks one of them
\* was sent and turned down
IncompleteOrderRejected ==
    /\ req.op = "battlemap:reorder"
    /\ AckedError("invalid-order")
    /\ req.isArray
    /\ Len(order) >= 2
    /\ Len(req.orderedIds) = Len(order) - 1
    /\ Range(req.orderedIds) \subseteq Range(order)
    /\ Cardinality(Range(req.orderedIds)) = Len(req.orderedIds)

----------------------------------------------------------------------------
(* SpecCover: a host adds and updates a cover with geometry of every kind: *)
(* in range, negative, beyond the map, missing.                             *)

\* The numbers a payload or a row carries for x, y, width or height
CoverNumbers == {-10, 30, 90, 130}

NoFields == [f \in {} |-> 0]

HorizontalInputs ==
    {NoFields}
      \cup {[x |-> a] : a \in CoverNumbers}
      \cup {[width |-> w] : w \in CoverNumbers}
      \cup {[x |-> a, width |-> w] : a \in CoverNumbers, w \in CoverNumbers}

VerticalInputs ==
    {NoFields, [y |-> 90, height |-> 30], [y |-> -10, height |-> 130]}

CoverGeometries == {Spread(h, v) : h \in HorizontalInputs, v \in VerticalInputs}

\* One battlemap, one floor, the cover "fog" the way some writer left its row
CoverStore(geometry) ==
    Store(<<BattlemapRow(StoreId(1), "Cave", "a.png", StoreId(2))>>,
          <<ImageRow(StoreId(2), StoreId(1), "Floor 1", "a.png", 0)>>,
          <<CoverRow("fog", StoreId(1), StoreId(2), geometry)>>)

InitCover ==
    \E geometry \in {[x |-> 10, y |-> 10, width |-> 20, height |-> 20],
                     CornerCover,
                     [x |-> -10, y |-> 130, width |-> 130, height |-> -10]},
       hasCoverImageId \in BOOLEAN :
        loadBattlemapStateFromSupabase(CoverStore(geometry), TRUE, TRUE, hasCoverImageId)

NextCover ==
    \/ DOMAIN sockets = {} /\ Connection
    \/ \E s \in DOMAIN sockets : UserIdentify(s, HostData)
    \/ \E s \in DOMAIN sockets, b \in DOMAIN maps, g \in CoverGeometries :
          BattlemapAddCover(s, b, 0, Spread(g, [id |-> "fog"]))
    \/ \E s \in DOMAIN sockets, b \in DOMAIN maps, g \in CoverGeometries :
          \E c \in CoverIdsOf(b) : BattlemapUpdateCover(s, b, c, 0, g)

SpecCover == InitCover /\ [][NextCover]_vars

StoredCovers == UNION {Range(maps[b].covers) : b \in DOMAIN maps}

\* C1: every cover stored in a battlemap, loaded, added or updated, lies
\* within the map: 0 <= width <= 100, 0 <= height <= 100, 0 <= x, 0 <= y,
\* x + width <= 100 and y + height <= 100.
CoverClampInvariant ==
    \A c \in StoredCovers :
        /\ 0 <= c.width /\ c.width <= 100
        /\ 0 <= c.height /\ c.height <= 100
        /\ 0 <= c.x /\ 0 <= c.y
        /\ c.x + c.width <= 100
        /\ c.y + c.height <= 100

\* C1 witness: add-cover with {x:90, y:90, width:30, height:30} has stored
\* {x:70, y:70, width:30, height:30}
CornerCoverPulledInside ==
    /\ req.op = "battlemap:add-cover"
    /\ Acked
    /\ req.cover = Spread(CornerCover, [id |-> "fog"])
    /\ \E c \in StoredCovers :
          c.id = "fog" /\ c.x = 70 /\ c.y = 70 /\ c.width = 30 /\ c.height = 30

----------------------------------------------------------------------------
(* SpecPresence: players connect, identify (in time or after the grace     *)
(* timer), move, pick an avatar, drop off and come back.                    *)

InitPresence == loadBattlemapStateFromSupabase(OneFloorStore, TRUE, TRUE, TRUE)

NextPresence ==
    \/ Connection
    \/ \E s \in DOMAIN sockets : UserIdentify(s, PlayerData)
    \/ \E s \in DOMAIN sockets : GraceTimer(s)
    \/ \E s \in DOMAIN sockets : Disconnect(s)
    \/ \E s \in DOMAIN sockets : PositionUpdate(s, NULL, [x |-> 30, y |-> 40])
    \/ \E s \in DOMAIN sockets : TokenImageUpdate(s, s, "hero.png")

SpecPresence == InitPresence /\ [][NextPresence]_vars

\* The user-connected payloads socket s was sent by the last handler
ConnectedInfos(msgs, s) ==
    {msgs[i].payload : i \in {i \in 1..Len(msgs) :
                                 /\ msgs[i].event = "user-connected"
                                 /\ msgs[i].to = ToSocket(s)}}

\* The user-reconnected payloads the last handler sent to the others
ReconnectedInfos(msgs, s) ==
    {msgs[i].payload : i \in {i \in 1..Len(msgs) :
                                 /\ msgs[i].event = "user-reconnected"
                                 /\ msgs[i].to = ToOthers(s)}}

\* C7: when an active player drops off, a ghost under its persistent id keeps
\* its position and color; when a connection then identifies with that
\* persistent id, it is sent user-connected with exactly that position and
\* color, and no ghost under that id remains.
ReconnectionRestoresState ==
    [][/\ (req'.op = "disconnect" /\ req'.socket \in DOMAIN users)
          => LET user == users[req'.socket]
                 P == user.persistentUserId
             IN  /\ P \in DOMAIN disconnectedUsers'
                 /\ disconnectedUsers'[P].position = user.position
                 /\ disconnectedUsers'[P].color = user.color
       /\ (/\ req'.op = "user-identify"
           /\ "persistentUserId" \in DOMAIN req'.data
           /\ req'.data.persistentUserId \in DOMAIN disconnectedUsers)
          => LET P == req'.data.persistentUserId
                 ghost == disconnectedUsers[P]
             IN  /\ \E info \in ConnectedInfos(emitted', req'.socket) :
                        /\ info.position = ghost.position
                        /\ info.color = ghost.color
                 /\ P \notin DOMAIN disconnectedUsers']_vars

\* C8: a connection's first identification with a persistent id that has a
\* ghost makes it an active user with the ghost's color, position, avatar
\* and size, says so in user-connected and user-reconnected, and deletes the
\* ghost; without a ghost the user gets a palette color and position {50,50}.
GhostFieldsRestored ==
    [][(/\ req'.op = "user-identify"
        /\ ~sockets[req'.socket].identificationReceived
        /\ "persistentUserId" \in DOMAIN req'.data)
       => LET s == req'.socket
              P == req'.data.persistentUserId
          IN  /\ s \in DOMAIN users'
              /\ IF P \in DOMAIN disconnectedUsers
                 THEN LET ghost == disconnectedUsers[P]
                          Same(r) == /\ r.color = ghost.color
                                     /\ r.position = ghost.position
                                     /\ r.imageSrc = ghost.imageSrc
                                     /\ r.size = ghost.size
                      IN  /\ Same(users'[s])
                          /\ ConnectedInfos(emitted', s) # {}
                          /\ \A info \in ConnectedInfos(emitted', s) : Same(info)
                          /\ \A info \in ReconnectedInfos(emitted', s) : Same(info)
                          /\ P \notin DOMAIN disconnectedUsers'
                 ELSE /\ users'[s].color \in Palette
                      /\ users'[s].position = DefaultPosition]_vars

----------------------------------------------------------------------------
(* Rejected requests *)

\* The last handler acked { ok: false, ... }
Refused(reply) == "ok" \in DOMAIN reply /\ ~reply.ok

\* C11: a battlemap mutation that is acked ok: false leaves the session state
\* as it was before the handler, schedules no background task and emits
\* nothing.
RejectionIsAtomic ==
    [][(req'.op \in MutatorOps /\ Refused(ack'))
       => /\ UNCHANGED <<bmVars, flagVars, presenceVars, sockets, idVars>>
          /\ scheduled' = <<>>
          /\ emitted' = <<>>]_vars

----------------------------------------------------------------------------
(* SpecRefs: a host sends requests that name battlemaps, floors and covers, *)
(* some of which do not exist.                                              *)

InitRefs == loadBattlemapStateFromSupabase(GateStore, TRUE, TRUE, TRUE)

\* The battlemaps a request can name: the loaded ones, and an unknown one
RefBattlemaps == DOMAIN maps \cup {UnknownId}
\* The covers a request can name: those of the battlemap, and an unknown one
RefCovers(b) == (IF b \in DOMAIN maps THEN CoverIdsOf(b) ELSE {}) \cup {"gone"}

NextRefs ==
    \/ DOMAIN sockets = {} /\ Connection
    \/ \E s \in DOMAIN sockets : UserIdentify(s, HostData)
    \/ \E s \in DOMAIN sockets : BattlemapRename(s, UnknownId, "Keep")
    \/ \E s \in DOMAIN sockets : BattlemapDelete(s, UnknownId)
    \/ \E s \in DOMAIN sockets : BattlemapSetActive(s, UnknownId)
    \/ \E s \in DOMAIN sockets : BattlemapUpdateSettings(s, UnknownId, [gridScale |-> 2])
    \/ \E s \in DOMAIN sockets : BattlemapUpdateGridData(s, UnknownId, "grid-A")
    \/ \E s \in DOMAIN sockets, b \in RefBattlemaps : BattlemapAddImage(s, b, NULL)
    \/ \E s \in DOMAIN sockets, b \in RefBattlemaps : \E i \in FloorTargets(b) :
          BattlemapSetActiveImage(s, b, i)
    \/ \E s \in DOMAIN sockets, b \in RefBattlemaps :
          BattlemapRenameImage(s, b, UnknownId, "Attic")
    \/ \E s \in DOMAIN sockets, b \in RefBattlemaps : \E i \in FloorTargets(b) :
          BattlemapDeleteImage(s, b, i)
    \/ \E s \in DOMAIN sockets, b \in RefBattlemaps :
          BattlemapUpdateMapPath(s, b, UnknownId, "c.png")
    \/ \E s \in DOMAIN sockets, b \in RefBattlemaps : \E i \in FloorTargets(b) \cup {0} :
          BattlemapAddCover(s, b, i, Spread(CornerCover, [id |-> "fog"]))
    \/ \E s \in DOMAIN sockets, b \in RefBattlemaps : \E c \in RefCovers(b) :
          BattlemapUpdateCover(s, b, c, 0, [x |-> 95])
    \/ \E s \in DOMAIN sockets, b \in RefBattlemaps : \E c \in RefCovers(b) :
          \E i \in {0, UnknownId} : BattlemapRemoveCover(s, b, c, i)

SpecRefs == InitRefs /\ [][NextRefs]_vars

NotFoundErrors == {"battlemap-not-found", "image-not-found", "cover-not-found"}

\* The request r names a battlemap that does not exist, a floor that is not
\* a floor of the battlemap it names, or a cover that battlemap does not hold
NamesMissing(r) ==
    /\ "battlemapId" \in DOMAIN r
    /\ \/ r.battlemapId \notin DOMAIN maps
       \/ /\ "imageId" \in DOMAIN r
          /\ r.imageId # 0
          /\ r.imageId \notin ImageIdsOf(r.battlemapId)
       \/ /\ "coverId" \in DOMAIN r
          /\ r.coverId \notin CoverIdsOf(r.battlemapId)

\* C12: a mutation from a mutator that names a battlemap, floor or cover
\* that does not exist is acked with a not-found error and changes nothing
\* of the battlemap state; so battlemap:add-cover with a floor id that is no
\* floor of the battlemap stores no cover.
MissingReferenceRejected ==
    [][(/\ req'.op \in MutatorOps
        /\ HoldsMutator(req'.socket)
        /\ NamesMissing(req'))
       => /\ Refused(ack')
          /\ ack'.error \in NotFoundErrors
          /\ UNCHANGED bmVars]_vars

----------------------------------------------------------------------------
(* SpecLegacy: the store has no floors table (battlemap_images); the cover  *)
(* table may or may not have the floor column.  A host reads the battlemaps *)
(* and works on their covers without naming a floor.                        *)

\* Two battlemaps written before floors existed, one of them with a cover
LegacyStore ==
    Store(<<BattlemapRow(StoreId(1), "Cave", "a.png", 0),
            BattlemapRow(StoreId(2), "Keep", NULL, 0)>>,
          <<>>,
          <<CoverRow("fog", StoreId(1), 0,
                     [x |-> 10, y |-> 10, width |-> 20, height |-> 20])>>)

InitLegacy ==
    \E hasCoverImageId \in BOOLEAN :
        loadBattlemapStateFromSupabase(LegacyStore, FALSE, FALSE, hasCoverImageId)

NextLegacy ==
    \/ DOMAIN sockets = {} /\ Connection
    \/ \E s \in DOMAIN sockets : UserIdentify(s, HostData)
    \/ \E s \in DOMAIN sockets, b \in DOMAIN maps : BattlemapGet(s, b)
    \/ \E s \in DOMAIN sockets, b \in DOMAIN maps :
          BattlemapUpdateMapPath(s, b, 0, "c.png")
    \/ \E s \in DOMAIN sockets, b \in DOMAIN maps :
          BattlemapAddCover(s, b, 0, CornerCover)
    \/ \E s \in DOMAIN sockets, b \in DOMAIN maps : \E c \in CoverIdsOf(b) :
          BattlemapUpdateCover(s, b, c, 0, [x |-> 95])
    \/ \E s \in DOMAIN sockets, b \in DOMAIN maps : \E c \in CoverIdsOf(b) :
          BattlemapRemoveCover(s, b, c, 0)

SpecLegacy == InitLegacy /\ [][NextLegacy]_vars

\* C13: with the floors table absent, battlemap:get of an existing battlemap
\* is acked ok with a snapshot whose floor list holds exactly one floor, and
\* that floor's map path is the battlemap's legacy map path.
LegacyGetHasOneSyntheticFloor ==
    [][(/\ req'.op = "battlemap:get"
        /\ ~supportsBattlemapImages
        /\ req'.battlemapId \in DOMAIN maps)
       => /\ "ok" \in DOMAIN ack' /\ ack'.ok
          /\ Len(ack'.battlemap.images) = 1
          /\ ack'.battlemap.images[1].mapPath = maps[req'.battlemapId].mapPath]_vars

\* The ids of the covers in the snapshot of battlemap b after the handler
SnapshotCoverIds(b) ==
    {c.id : c \in serializeBattlemap(maps'[b], supportsBattlemapCoverImageId).covers}

\* C14: with the floors table absent, a mutator's add-cover without a floor
\* id is acked ok and its cover is in the battlemap's snapshot; update-cover
\* and remove-cover on a cover of the battlemap, without a floor id, are
\* acked ok, and the cover is then in, respectively no longer in, the
\* snapshot.
LegacyCoverOperationsSucceed ==
    [][(/\ ~supportsBattlemapImages
        /\ req'.op \in {"battlemap:add-cover", "battlemap:update-cover",
                        "battlemap:remove-cover"}
        /\ HoldsMutator(req'.socket)
        /\ req'.battlemapId \in DOMAIN maps
        /\ req'.imageId = 0)
       => LET b == req'.battlemapId
          IN  /\ req'.op = "battlemap:add-cover"
                    => /\ "ok" \in DOMAIN ack' /\ ack'.ok
                       /\ ack'.coverId \in SnapshotCoverIds(b)
              /\ (req'.op = "battlemap:update-cover" /\ req'.coverId \in CoverIdsOf(b))
                    => /\ ack' = Ok
                       /\ req'.coverId \in SnapshotCoverIds(b)
              /\ (req'.op = "battlemap:remove-cover" /\ req'.coverId \in CoverIdsOf(b))
                    => /\ ack' = Ok
                       /\ req'.coverId \notin SnapshotCoverIds(b)]_vars

----------------------------------------------------------------------------
(* SpecScenario: on top of any loaded state with the floors table present,  *)
(* a host creates battlemap "Dungeon", adds floor "Basement", gives that    *)
(* floor an image, adds one cover, and reads battlemaps at any time.  Each  *)
(* step of the scenario is taken once, after the step before it.            *)

InitScenario ==
    \E store \in FloorStores, hasActiveImageId \in BOOLEAN, hasCoverImageId \in BOOLEAN :
        loadBattlemapStateFromSupabase(store, TRUE, hasActiveImageId, hasCoverImageId)

\* The cover of the scenario; the payload carries no id
ScenarioCover == [x |-> 10, y |-> 10, width |-> 20, height |-> 20, color |-> "#000"]

Dungeons == {b \in DOMAIN maps : maps[b].name = "Dungeon"}

\* The ids of the floors of battlemap b that are named "Basement"
Basements(b) ==
    {maps[b].images[i].id :
        i \in {i \in 1..Len(maps[b].images) : maps[b].images[i].name = "Basement"}}

ScenarioCreate(s) ==
    /\ Dungeons = {}
    /\ Serve(s, [op |-> "battlemap:create", socket |-> s],
             CreateOutcome(s, "Dungeon", NULL))

ScenarioAddFloor(s, b) ==
    /\ b \in Dungeons
    /\ Basements(b) = {}
    /\ Serve(s, [op |-> "battlemap:add-image", socket |-> s, battlemapId |-> b],
             AddImageOutcome(s, b, "Basement"))

\* The floor is named by its id, or left out (imageId = 0: the active floor)
ScenarioSetMapPath(s, b, i) ==
    /\ b \in Dungeons
    /\ i \in Basements(b) \cup {0}
    /\ \E f \in Basements(b) : getBattlemapImageById(maps[b], f).mapPath = NULL
    /\ Serve(s, [op |-> "battlemap:update-map-path", socket |-> s,
                 battlemapId |-> b, imageId |-> i],
             UpdateMapPathOutcome(s, b, i, "d.png"))

ScenarioAddCover(s, b, i) ==
    /\ b \in Dungeons
    /\ i \in Basements(b) \cup {0}
    /\ \E f \in Basements(b) : getBattlemapImageById(maps[b], f).mapPath = "d.png"
    /\ DOMAIN maps[b].covers = {}
    /\ Serve(s, [op |-> "battlemap:add-cover", socket |-> s, battlemapId |-> b,
                 imageId |-> i, cover |-> ScenarioCover],
             AddCoverOutcome(s, b, i, ScenarioCover))

ScenarioGet(s, b) ==
    Serve(s, [op |-> "battlemap:get", socket |-> s, battlemapId |-> b],
          GetOutcome(b))

NextScenario ==
    \/ DOMAIN sockets = {} /\ Connection
    \/ \E s \in DOMAIN sockets : UserIdentify(s, HostData)
    \/ \E s \in DOMAIN sockets : ScenarioCreate(s)
    \/ \E s \in DOMAIN sockets, b \in DOMAIN maps : ScenarioAddFloor(s, b)
    \/ \E s \in DOMAIN sockets, b \in DOMAIN maps : \E i \in ImageIdsOf(b) \cup {0} :
          ScenarioSetMapPath(s, b, i)
    \/ \E s \in DOMAIN sockets, b \in DOMAIN maps : \E i \in ImageIdsOf(b) \cup {0} :
          ScenarioAddCover(s, b, i)
    \/ \E s \in DOMAIN sockets, b \in DOMAIN maps : ScenarioGet(s, b)

SpecScenario == InitScenario /\ [][NextScenario]_vars

\* battlemap:get is being served for the battlemap the scenario has built
ScenarioRead ==
    /\ req'.op = "battlemap:get"
    /\ req'.battlemapId \in Dungeons
    /\ DOMAIN maps[req'.battlemapId].covers # {}

\* What the scenario's snapshot holds besides its floors: exactly one cover,
\* with the coordinates and color that were sent, and grid scale 1
ScenarioCoverAndGrid(snap) ==
    /\ Cardinality(snap.covers) = 1
    /\ \A c \in snap.covers :
          /\ c.x = 10 /\ c.y = 10 /\ c.width = 20 /\ c.height = 20
          /\ c.color = "#000"
    /\ snap.gridScale = 1

\* C15, as stated: after the scenario, battlemap:get returns a snapshot with
\* one floor, named "Basement", which is the active floor, exactly one cover
\* with the coordinates and color sent, and grid scale 1.
ScenarioSnapshotHasOneFloor ==
    [][ScenarioRead
       => /\ "ok" \in DOMAIN ack' /\ ack'.ok
          /\ Len(ack'.battlemap.images) = 1
          /\ ack'.battlemap.images[1].name = "Basement"
          /\ ack'.battlemap.activeImageId = ack'.battlemap.images[1].id
          /\ ScenarioCoverAndGrid(ack'.battlemap)]_vars

\* C15, amended: after the scenario, battlemap:get returns a snapshot with
\* two floors: "Floor 1", which battlemap:create made and which has no map
\* path, and "Basement", with the image as its map path; "Basement" is the
\* active floor and its image is the snapshot's map path; the snapshot has
\* exactly one cover with the coordinates and color sent, and grid scale 1.
ScenarioSnapshotHasBasementActive ==
    [][ScenarioRead
       => /\ "ok" \in DOMAIN ack' /\ ack'.ok
          /\ Len(ack'.battlemap.images) = 2
          /\ ack'.battlemap.images[1].name = "Floor 1"
          /\ ack'.battlemap.images[1].mapPath = NULL
          /\ ack'.battlemap.images[2].name = "Basement"
          /\ ack'.battlemap.images[2].mapPath = "d.png"
          /\ ack'.battlemap.activeImageId = ack'.battlemap.images[2].id
          /\ ack'.battlemap.mapPath = "d.png"
          /\ ScenarioCoverAndGrid(ack'.battlemap)]_vars

\* C15 witness: the battlemap the scenario built, cover included, was read
ScenarioSnapshotServed ==
    /\ req.op = "battlemap:get"
    /\ Acked
    /\ ack.battlemap.name = "Dungeon"
    /\ ack.battlemap.covers # {}
    /\ "Basement" \in {ack.battlemap.images[i].name : i \in 1..Len(ack.battlemap.images)}

----------------------------------------------------------------------------
(* SpecTokens: players and a host connect, identify, move, change avatar    *)
(* and size, a manual token is added, and connections close.                *)

InitTokens == loadBattlemapStateFromSupabase(OneFloorStore, TRUE, TRUE, TRUE)

\* The keys of users that are manual tokens: they belong to no connection
ManualTokens == DOMAIN users \ DOMAIN sockets

\* Two connections: a second one is opened once
NextTokens ==
    \/ Cardinality(DOMAIN sockets) <= 1 /\ Connection
    \/ \E s \in DOMAIN sockets, data \in {PlayerData, HostData} : UserIdentify(s, data)
    \/ \E s \in DOMAIN sockets : GraceTimer(s)
    \/ \E s \in DOMAIN sockets : Disconnect(s)
    \/ \E s \in DOMAIN sockets : PositionUpdate(s, NULL, [x |-> 30, y |-> 40])
    \/ \E s \in DOMAIN sockets : TokenImageUpdate(s, s, "hero.png")
    \/ \E s \in DOMAIN displayModeUsers, t \in DOMAIN users \cap DOMAIN sockets :
          TokenSizeUpdate(s, t, "large")
    \/ \E s \in DOMAIN sockets :
          AddToken(s, "#22c55e", [x |-> 10, y |-> 10], "huge", NULL)

SpecTokens == InitTokens /\ [][NextTokens]_vars

\* C16: when the socket of an active user closes, the user leaves the active
\* map, a ghost under its persistent id holds its last color, position,
\* avatar and size, and exactly one user-disconnected message with those
\* values goes to every other connection; the close of any socket leaves
\* every manual token and every ghost of another identity as it was.
DisconnectLeavesGhost ==
    [][req'.op = "disconnect"
       => LET s == req'.socket
              P == IF s \in DOMAIN users THEN users[s].persistentUserId ELSE NULL
          IN  /\ s \in DOMAIN users
                    => /\ s \notin DOMAIN users'
                       /\ ~users[s].isDisplay
                       /\ P \in DOMAIN disconnectedUsers'
                       /\ disconnectedUsers'[P].persistentUserId = P
                       /\ disconnectedUsers'[P].color = users[s].color
                       /\ disconnectedUsers'[P].position = users[s].position
                       /\ disconnectedUsers'[P].imageSrc = users[s].imageSrc
                       /\ disconnectedUsers'[P].size = users[s].size
                       /\ emitted' = <<Msg(ToOthers(s), "user-disconnected",
                                           [userId |-> s, persistentUserId |-> P,
                                            color |-> users[s].color,
                                            position |-> users[s].position,
                                            imageSrc |-> users[s].imageSrc,
                                            size |-> users[s].size])>>
              /\ \A t \in DOMAIN users \ {s} :
                    t \in DOMAIN users' /\ users'[t] = users[t]
              /\ \A g \in DOMAIN disconnectedUsers \ {P} :
                    g \in DOMAIN disconnectedUsers'
                       /\ disconnectedUsers'[g] = disconnectedUsers[g]]_vars

\* C16 witness: a player with an avatar has dropped off while a manual token
\* and the ghost of another identity were there
PlayerGhostedBesideToken ==
    /\ req.op = "disconnect"
    /\ emitted # <<>>
    /\ emitted[1].event = "user-disconnected"
    /\ emitted[1].payload.imageSrc = "hero.png"
    /\ ManualTokens # {}
    /\ Cardinality(DOMAIN disconnectedUsers) >= 2

----------------------------------------------------------------------------
(* SpecRemoval: a host and two players, who may use the same persistent id  *)
(* (two tabs of one browser), connect, identify and drop off; the host      *)
(* removes the players' token.                                              *)

InitRemoval == loadBattlemapStateFromSupabase(OneFloorStore, TRUE, TRUE, TRUE)

\* Three connections are opened
NextRemoval ==
    \/ Cardinality(DOMAIN sockets) <= 2 /\ Connect
    \/ \E s \in DOMAIN sockets, data \in {PlayerData, HostData} : UserIdentify(s, data)
    \/ \E s \in DOMAIN sockets : GraceTimer(s)
    \/ \E s \in DOMAIN sockets : Disconnect(s)
    \/ \E s \in DOMAIN sockets : RemoveToken(s, "p1")

SpecRemoval == InitRemoval /\ [][NextRemoval]_vars

\* The token-removed messages for persistent id P among msgs that go to all
RemovalsToAll(msgs, P) ==
    {i \in 1..Len(msgs) : msgs[i] = Msg(ToAll, "token-removed", P)}

\* C17: once remove-token from a host for persistent id P has been served, no
\* active entry and no ghost carries P, however many active entries carried
\* it, and token-removed has gone to all connections; the close of a socket
\* that has no active entry (any more) creates no ghost.
RemovalIsComplete ==
    [][/\ (req'.op = "remove-token" /\ req'.socket \in DOMAIN displayModeUsers)
          => LET P == req'.persistentUserId
             IN  /\ \A k \in DOMAIN users' : users'[k].persistentUserId # P
                 /\ \A g \in DOMAIN disconnectedUsers' :
                       g # P /\ disconnectedUsers'[g].persistentUserId # P
                 /\ RemovalsToAll(emitted', P) # {}
       /\ (req'.op = "disconnect" /\ req'.socket \notin DOMAIN users)
          => disconnectedUsers' = disconnectedUsers]_vars

----------------------------------------------------------------------------
(* SpecCapability: two connections identify with every combination of       *)
(* isDisplay, suppressPresence and allowBattlemapMutations (given or not),  *)
(* drop off, and ask for the removal of the token of persistent id "p1".    *)

InitCapability == loadBattlemapStateFromSupabase(OneFloorStore, TRUE, TRUE, TRUE)

\* allowBattlemapMutations: absent, true or false
AllowFields ==
    {NoFields} \cup {[allowBattlemapMutations |-> a] : a \in BOOLEAN}

CapabilityIdentifications ==
    {Spread([persistentUserId |-> "p1", isDisplay |-> d, suppressPresence |-> sp], allow) :
        d \in BOOLEAN, sp \in BOOLEAN, allow \in AllowFields}

\* Two connections are opened
NextCapability ==
    \/ Cardinality(DOMAIN sockets) <= 1 /\ Connect
    \/ \E s \in DOMAIN sockets, data \in CapabilityIdentifications : UserIdentify(s, data)
    \/ \E s \in DOMAIN sockets : GraceTimer(s)
    \/ \E s \in DOMAIN sockets : Disconnect(s)
    \/ \E s \in DOMAIN sockets : RemoveToken(s, "p1")

SpecCapability == InitCapability /\ [][NextCapability]_vars

\* C18: remove-token broadcasts token-removed exactly when the connection it
\* comes from holds the battlemap-mutator capability (the check of the
\* battlemap mutations), whatever isDisplay, suppressPresence and
\* allowBattlemapMutations its identification gave; when it does not, the
\* active users and the ghosts stay as they were.
RemovalGatedByCapability ==
    [][req'.op = "remove-token"
       => /\ (RemovalsToAll(emitted', req'.persistentUserId) # {})
                <=> ensureBattlemapMutator(req'.socket)
          /\ ~ensureBattlemapMutator(req'.socket)
                => UNCHANGED <<users, usersOrder, disconnectedUsers>>]_vars

\* C20: a first identification that asks for suppressPresence leaves the
\* active users, the ghosts and the display connections as they were,
\* whatever persistent id it carries, and emits no message.
SuppressedIdentifyHasNoEffect ==
    [][(/\ req'.op = "user-identify"
        /\ ~sockets[req'.socket].identificationReceived
        /\ "suppressPresence" \in DOMAIN req'.data
        /\ req'.data.suppressPresence)
       => /\ UNCHANGED <<users, usersOrder, disconnectedUsers, displayModeUsers>>
          /\ emitted' = <<>>]_vars

----------------------------------------------------------------------------
(* Display connections, under SpecTokens *)

\* The user-joined and user-reconnected messages among msgs
JoinMessages(msgs) ==
    {i \in 1..Len(msgs) : msgs[i].event \in {"user-joined", "user-reconnected"}}

\* C19: no entry of the active-user map is a display's, and once a
\* connection has identified as a display it has no entry in the active-user
\* map, no user-joined or user-reconnected is emitted for it, and it passes
\* the check of the mutator-gated operations.
DisplayIsNeverActive ==
    [][/\ \A k \in DOMAIN users' : ~users'[k].isDisplay
       /\ (/\ req'.op = "user-identify"
           /\ "isDisplay" \in DOMAIN req'.data
           /\ req'.data.isDisplay)
          => LET s == req'.socket
             IN  /\ s \notin DOMAIN users'
                 /\ JoinMessages(emitted') = {}
                 /\ sockets'[s].userData.id # NULL
                 /\ sockets'[s].userData.allowBattlemapMutations]_vars

----------------------------------------------------------------------------
(* The grace timer, under SpecTokens *)

\* C21: when the grace timer of a connection fires before any identification
\* was received, the connection becomes an anonymous fresh user: not a
\* display, without the mutator capability, with its socket id as persistent
\* id, at position {50,50}, with a palette color.  A connection is
\* initialized once: the timer of an identified connection changes nothing,
\* and nothing re-creates the user record of an identified connection.
GraceTimerIdentifiesOnce ==
    [][/\ (req'.op = "timeout" /\ ~sockets[req'.socket].identificationReceived)
          => LET s == req'.socket
                 u == sockets'[s].userData
             IN  /\ sockets'[s].identificationReceived
                 /\ u.id = s
                 /\ ~u.isDisplay
                 /\ ~u.allowBattlemapMutations
                 /\ u.persistentUserId = s
                 /\ u.position = DefaultPosition
                 /\ u.color \in Palette
                 /\ s \in DOMAIN users' /\ users'[s] = u
       /\ (req'.op = "timeout" /\ sockets[req'.socket].identificationReceived)
          => /\ sockets'[req'.socket].userData = sockets[req'.socket].userData
             /\ emitted' = <<>>
             /\ UNCHANGED <<bmVars, presenceVars>>
       /\ \A s \in DOMAIN sockets :
             sockets[s].identificationReceived
             => /\ sockets'[s].identificationReceived
                /\ req'.op \in {"timeout", "user-identify"}
                      => /\ sockets'[s].userData.isDisplay = sockets[s].userData.isDisplay
                         /\ sockets'[s].userData.allowBattlemapMutations
                               = sockets[s].userData.allowBattlemapMutations
                         /\ sockets'[s].userData.color = sockets[s].userData.color
                         /\ sockets'[s].userData.position = sockets[s].userData.position
                         /\ (s \in DOMAIN users') = (s \in DOMAIN users)]_vars

\* C21 witness: the timer of a connection that never identified has fired
\* and made it an active user under its socket id
AnonymousUserByTimer ==
    /\ req.op = "timeout"
    /\ emitted # <<>>
    /\ req.socket \in DOMAIN users
    /\ users[req.socket].persistentUserId = req.socket

----------------------------------------------------------------------------
(* Background persistence: runBackgroundTask, the persistence helpers and   *)
(* the store.  A task is queued by the handler (setImmediate), starts later *)
(* and sends its requests one after the other; the store answers the        *)
(* requests in flight in any order.                                         *)

MaxInFlight == 2

\* One request to the store; kind is "insert", "update", "upsert" or "delete"
Request(kind, table, row) == [kind |-> kind, table |-> table, row |-> row]

insertBattlemapRow(battlemap, sortIndex) ==
    LET row == [id |-> battlemap.id, name |-> battlemap.name,
                map_path |-> battlemap.mapPath, grid_scale |-> battlemap.gridScale,
                grid_offset_x |-> battlemap.gridOffsetX,
                grid_offset_y |-> battlemap.gridOffsetY,
                grid_data |-> battlemap.gridData, sort_index |-> sortIndex]
    IN  Request("insert", "battlemaps",
                IF supportsBattlemapActiveImageId
                THEN Spread(row, [active_image_id |-> battlemap.activeImageId])
                ELSE row)

\* The row carries the id the update is filtered on; no request is sent
\* for a battlemap that is gone from memory
updateBattlemapRow(battlemapId) ==
    IF battlemapId \notin DOMAIN maps THEN <<>>
    ELSE LET battlemap == maps[battlemapId]
             row == [id |-> battlemapId, name |-> battlemap.name,
                     map_path |-> battlemap.mapPath,
                     grid_scale |-> battlemap.gridScale,
                     grid_offset_x |-> battlemap.gridOffsetX,
                     grid_offset_y |-> battlemap.gridOffsetY,
                     grid_data |-> battlemap.gridData]
         IN  <<Request("update", "battlemaps",
                       IF supportsBattlemapActiveImageId
                       THEN Spread(row, [active_image_id |-> battlemap.activeImageId])
                       ELSE row)>>

upsertCoverRow(battlemapId, cover, battlemapImageId) ==
    LET row == [id |-> cover.id, battlemap_id |-> battlemapId, x |-> cover.x,
                y |-> cover.y, width |-> cover.width, height |-> cover.height,
                color |-> cover.color]
    IN  Request("upsert", "battlemap_covers",
                IF supportsBattlemapCoverImageId
                THEN Spread(row, [battlemap_image_id |-> battlemapImageId])
                ELSE row)

insertBattlemapImageRow(image) ==
    Request("insert", "battlemap_images",
            ImageRow(image.id, image.battlemapId, image.name, image.mapPath,
                     image.sortIndex))

\* The tasks whose runs are followed
FollowedTasks == {"insert battlemap", "update battlemap name", "update cover",
                  "upsert cover", "delete cover", "update battlemap map path",
                  "persist active battlemap image"}

\* deleteCoverRow: the delete is filtered on the cover id alone
deleteCoverRow(coverId) == Request("delete", "battlemap_covers", [id |-> coverId])

\* updateBattlemapImageRow(imageId, { map_path })
updateBattlemapImageRow(imageId, mapPath) ==
    Request("update", "battlemap_images", [id |-> imageId, map_path |-> mapPath])

\* The requests a task sends when it runs, each one after the answer to the
\* one before.  The battlemap a closure captured is the object the handler
\* stored in maps: its fields are read when the task runs (the
\* specifications that follow 'upsert cover' and 'update battlemap map
\* path' delete no battlemap, so the object is the one in maps).
Requests(task) ==
    LET a == task.args
    IN  IF task.description = "insert battlemap"
        THEN LET battlemap == IF a.battlemap.id \in DOMAIN maps
                              THEN maps[a.battlemap.id] ELSE a.battlemap
             IN  <<insertBattlemapRow(battlemap, a.sortIndex)>>
                 \o (IF supportsBattlemapImages /\ a.imageId # 0
                     THEN <<insertBattlemapImageRow(
                              [id |-> a.imageId, battlemapId |-> a.battlemap.id,
                               name |-> "Floor 1", mapPath |-> a.battlemap.mapPath,
                               sortIndex |-> 0])>>
                     ELSE <<>>)
        ELSE IF task.description = "update battlemap name"
        THEN updateBattlemapRow(a.battlemapId)
        ELSE IF task.description = "update cover"
        THEN <<upsertCoverRow(a.battlemapId, a.cover, a.imageId)>>
        ELSE IF task.description = "persist active battlemap image"
        THEN updateBattlemapRow(a.battlemapId)
        ELSE IF task.description = "upsert cover"
        THEN LET activeImageId == maps[a.battlemapId].activeImageId
                 imageIdToPersist ==
                     IF supportsBattlemapCoverImageId /\ activeImageId # 0
                     THEN IF a.requestedImageId # 0 THEN a.requestedImageId
                          ELSE activeImageId
                     ELSE 0
             IN  <<upsertCoverRow(a.battlemapId, a.cover, imageIdToPersist)>>
        ELSE IF task.description = "delete cover"
        THEN <<deleteCoverRow(a.coverId)>>
        ELSE IF task.description = "update battlemap map path"
        THEN LET effectiveTargetId ==
                     IF a.targetImageId # 0 THEN a.targetImageId
                     ELSE maps[a.battlemapId].activeImageId
             IN  (IF supportsBattlemapImages /\ effectiveTargetId # 0
                  THEN <<updateBattlemapImageRow(effectiveTargetId, a.mapPath)>>
                  ELSE <<>>)
                 \o updateBattlemapRow(a.battlemapId)
        ELSE <<>>

\* A foreign key to battlemap_images(id): null, or the id of a floor row
ReferencesImage(db, row, column) ==
    \/ column \notin DOMAIN row
    \/ row[column] = 0
    \/ row[column] \in DOMAIN db.battlemap_images

\* The constraints of the schema on one request: primary keys,
\* battlemaps_active_image_id_fkey, battlemap_images.battlemap_id and
\* battlemap_covers_battlemap_image_id_fkey
SatisfiesSchema(db, r) ==
    IF r.kind = "delete" THEN TRUE
    ELSE IF r.table = "battlemaps"
    THEN IF r.kind = "insert"
         THEN /\ r.row.id \notin DOMAIN db.battlemaps
              /\ ReferencesImage(db, r.row, "active_image_id")
         ELSE \/ r.row.id \notin DOMAIN db.battlemaps
              \/ ReferencesImage(db, r.row, "active_image_id")
    ELSE IF r.table = "battlemap_images"
    THEN \/ r.kind = "update"
         \/ /\ r.row.id \notin DOMAIN db.battlemap_images
            /\ r.row.battlemap_id \in DOMAIN db.battlemaps
    ELSE ReferencesImage(db, r.row, "battlemap_image_id")

\* The tables after an accepted request
Written(db, r) ==
    LET table == db[r.table]
        id == r.row.id
    IN  IF r.kind = "delete"
        THEN IF id \in DOMAIN table
             THEN [db EXCEPT ![r.table] = Without(table, id)]
             ELSE db
        ELSE IF r.kind = "update"
        THEN IF id \in DOMAIN table
             THEN [db EXCEPT ![r.table] = With(table, id, Spread(table[id], r.row))]
             ELSE db
        ELSE IF id \in DOMAIN table
        THEN [db EXCEPT ![r.table] = With(table, id, Spread(table[id], r.row))]
        ELSE IF r.table = "battlemaps"
        THEN [db EXCEPT ![r.table] = With(table, id, Spread([active_image_id |-> 0], r.row))]
        ELSE [db EXCEPT ![r.table] = With(table, id, r.row)]

\* A task as runBackgroundTask keeps it: queued by setImmediate, not started
Queued(task) == [task |-> task, started |-> FALSE, requests |-> <<>>]

QueuedAll(tasks) == [i \in 1..Len(tasks) |-> Queued(tasks[i])]

RemoveAt(seq, i) == SubSeq(seq, 1, i - 1) \o SubSeq(seq, i + 1, Len(seq))

\* A gateway that awaits the store inside the handler: the first request of
\* the first task it scheduled is written before the handler returns
ServeAwaitingStore(s, request, r) ==
    /\ r.uuid <= MaxUuid + 1
    /\ Handle(s, request, r)
    /\ supabase' = IF r.scheduled = <<>> \/ Requests(r.scheduled[1]) = <<>>
                   THEN supabase
                   ELSE Written(supabase, Head(Requests(r.scheduled[1])))
    /\ UNCHANGED <<background, response, phase>>

\* One battlemap event served to completion, its background tasks queued
ServeInBackground(s, request, r) ==
    /\ r.uuid <= MaxUuid + 1
    /\ Len(background) + Len(r.scheduled) <= MaxInFlight
    /\ Handle(s, request, r)
    /\ background' = background \o QueuedAll(r.scheduled)
    /\ UNCHANGED <<supabase, response, phase>>

\* The setImmediate callback of the oldest queued task runs: the task
\* builds its requests and sends the first one
StartTask ==
    /\ \E i \in 1..Len(background) :
          /\ ~background[i].started
          /\ \A j \in 1..(i - 1) : background[j].started
          /\ background[i].task.description \in FollowedTasks
          /\ LET requests == Requests(background[i].task)
             IN  background' =
                     IF requests = <<>> THEN RemoveAt(background, i)
                     ELSE [background EXCEPT ![i] = [@ EXCEPT !.started = TRUE,
                                                             !.requests = requests]]
    /\ UNCHANGED <<bmVars, flagVars, presenceVars, sockets, idVars, outVars,
                   supabase, response, phase>>

\* The store answers the request in flight of task i.  fault: the request
\* fails whatever it holds; thrown: the failure rejects the awaited promise
\* and ends the task (logged by the catch of runBackgroundTask), otherwise
\* it is returned in the result and the task goes on.
StoreAnswers(i, fault, thrown) ==
    /\ i \in 1..Len(background)
    /\ background[i].started
    /\ LET r == Head(background[i].requests)
           rest == Tail(background[i].requests)
           accepted == ~fault /\ SatisfiesSchema(supabase, r)
       IN  /\ accepted => ~thrown
           /\ supabase' = IF accepted THEN Written(supabase, r) ELSE supabase
           /\ response' = [request |-> r, error |-> ~accepted, after |-> req]
           /\ background' =
                  IF thrown \/ rest = <<>> THEN RemoveAt(background, i)
                  ELSE [background EXCEPT ![i].requests = rest]
    /\ UNCHANGED <<bmVars, flagVars, presenceVars, sockets, idVars, outVars, phase>>

----------------------------------------------------------------------------
(* SpecFaults: one host renames the battlemap, moves its cover and creates  *)
(* a battlemap while the store answers, or fails, the requests in flight.   *)

InitFaults == loadBattlemapStateFromSupabase(GateStore, TRUE, TRUE, TRUE)

RenameInBackground(s, battlemapId, name) ==
    ServeInBackground(s, [op |-> "battlemap:rename", socket |-> s,
                          battlemapId |-> battlemapId],
                      RenameOutcome(s, battlemapId, name))

UpdateCoverInBackground(s, battlemapId, coverId, updates) ==
    ServeInBackground(s, [op |-> "battlemap:update-cover", socket |-> s,
                          battlemapId |-> battlemapId, imageId |-> 0,
                          coverId |-> coverId, updates |-> updates],
                      UpdateCoverOutcome(s, battlemapId, coverId, 0, updates))

CreateInBackground(s, name, mapPath) ==
    ServeInBackground(s, [op |-> "battlemap:create", socket |-> s],
                      CreateOutcome(s, name, mapPath))

NextFaults ==
    \/ DOMAIN sockets = {} /\ Connection
    \/ \E s \in DOMAIN sockets : UserIdentify(s, HostData)
    \/ \E s \in DOMAIN sockets : RenameInBackground(s, StoreId(1), "Keep")
    \/ \E s \in DOMAIN sockets :
          UpdateCoverInBackground(s, StoreId(1), "fog", [x |-> 30])
    \/ \E s \in DOMAIN sockets : CreateInBackground(s, "Dungeon", "d.png")
    \/ StartTask
    \/ \E i \in 1..Len(background), fault, thrown \in BOOLEAN :
          StoreAnswers(i, fault, thrown)

SpecFaults == InitFaults /\ [][NextFaults]_vars

sessionVars == <<bmVars, flagVars, presenceVars, sockets, idVars>>

\* A step of a background task: a task started, or the store answered
BackgroundStep ==
    \/ supabase' # supabase
    \/ response' # response
    \/ background' # background /\ Len(background') <= Len(background)

\* C22: persistence stays off the real-time path.  A step in which a
\* battlemap mutation succeeds changes the session, acknowledges and
\* broadcasts while the store and the tasks already in flight stay as they
\* were, the tasks it scheduled being queued, none started; a step of a
\* background task, a failed write included, changes no field of the
\* session state, emits nothing and leaves the last acknowledgement alone.
PersistenceOffTheRealTimePath ==
    [][/\ ( /\ ~BackgroundStep
            /\ <<sessionVars, outVars, background>>' # <<sessionVars, outVars, background>>
            /\ req'.op \in {"battlemap:rename", "battlemap:update-cover",
                            "battlemap:create"}
            /\ Acked' )
          => /\ supabase' = supabase
             /\ response' = response
             /\ scheduled' # <<>>
             /\ background' = background \o QueuedAll(scheduled')
             /\ \E i \in 1..Len(emitted') : emitted'[i].event = "battlemap:updated"
       /\ BackgroundStep => UNCHANGED <<sessionVars, outVars>>
      ]_vars

\* A write has failed, and an event that arrived after the failure was
\* served and acknowledged
ServedAfterFailedWrite ==
    /\ "error" \in DOMAIN response
    /\ response.error
    /\ response.after # req
    /\ req.op = "battlemap:rename"
    /\ Acked
    /\ maps[StoreId(1)].name = "Keep"
    /\ supabase.battlemaps[StoreId(1)].name = "Cave"

----------------------------------------------------------------------------
(* SpecWrites: two hosts move the same cover and create a battlemap; the    *)
(* store accepts every request that satisfies its schema.                   *)

InitWrites ==
    \E hasActiveImageId \in BOOLEAN :
        loadBattlemapStateFromSupabase(GateStore, TRUE, hasActiveImageId, TRUE)

\* The x each host drags the cover to
DraggedTo(s) == IF s = SocketId(1) THEN 30 ELSE 60

NextWrites ==
    \/ Cardinality(DOMAIN sockets) <= 1 /\ Connection
    \/ \E s \in DOMAIN sockets : UserIdentify(s, HostData)
    \/ \E s \in DOMAIN sockets :
          UpdateCoverInBackground(s, StoreId(1), "fog", [x |-> DraggedTo(s)])
    \/ \E s \in DOMAIN sockets : CreateInBackground(s, "Dungeon", "d.png")
    \/ StartTask
    \/ \E i \in 1..Len(background), thrown \in BOOLEAN : StoreAnswers(i, FALSE, thrown)

SpecWrites == InitWrites /\ [][NextWrites]_vars

\* The geometry columns of a cover row, or of a cover in memory
Geometry(c) == [x |-> c.x, y |-> c.y, width |-> c.width, height |-> c.height]

\* C23: last write wins per cover.  Once the update-cover of the second
\* host is acknowledged and every background write has completed, the
\* persisted row of the cover equals the cover in memory, which is the
\* second host's update.
LastCoverWriteWins ==
    ( /\ req.op = "battlemap:update-cover"
      /\ req.socket = SocketId(2)
      /\ Acked
      /\ background = <<>> )
    => /\ \E c \in Range(maps[StoreId(1)].covers) :
             c.id = "fog" /\ c.x = DraggedTo(SocketId(2))
       /\ \A c \in Range(maps[StoreId(1)].covers) :
             c.id = "fog" =>
                 Geometry(supabase.battlemap_covers["fog"]) = Geometry(c)

\* The 'insert battlemap' tasks still in flight for battlemap b
InsertsInFlight(b) ==
    {i \in 1..Len(background) :
        /\ background[i].task.description = "insert battlemap"
        /\ background[i].task.args.battlemap.id = b}

\* C24: a created battlemap is eventually persisted.  Once the background
\* task of its create has run, the store holds a battlemap row with the new
\* id and a floor row for its initial floor.
CreatedBattlemapIsPersisted ==
    \A b \in DOMAIN maps :
        (b < StoreId(0) /\ InsertsInFlight(b) = {})
        => /\ b \in DOMAIN supabase.battlemaps
           /\ supportsBattlemapImages =>
                 \E f \in DOMAIN supabase.battlemap_images :
                     /\ supabase.battlemap_images[f].battlemap_id = b
                     /\ f = maps[b].images[1].id

----------------------------------------------------------------------------
(* Payloads: the handlers that read their payload, served with and without  *)
(* one, and the session-wide cover handlers.                                *)

\* socket.emit(event) without arguments: the handler's data is undefined
Missing == [undefined |-> TRUE]

\* What a handler leaves when it throws: no ack, and the TypeError goes up
\* through the emitter uncaught
Uncaught == [thrown |-> "TypeError"]

\* The handler of request throws before it has changed or emitted anything
Throws(s, request) ==
    /\ s \in OpenSockets
    /\ req' = request
    /\ ack' = Uncaught
    /\ emitted' = <<>>
    /\ scheduled' = <<>>
    /\ UNCHANGED <<bmVars, flagVars, presenceVars, sockets, idVars, storeVars, phase>>

\* socket.on('add-token'): const { color, position, size, imageSrc } = data
AddTokenEvent(s, data) ==
    IF data = Missing THEN Throws(s, [op |-> "add-token", socket |-> s])
    ELSE AddToken(s, data.color, data.position, data.size, data.imageSrc)

\* socket.on('token-image-update'): const { tokenId, imageSrc } = data
TokenImageUpdateEvent(s, data) ==
    IF data = Missing THEN Throws(s, [op |-> "token-image-update", socket |-> s])
    ELSE TokenImageUpdate(s, data.tokenId, data.imageSrc)

\* A handler of the session-wide covers that returns or emits
LegacyCoverHandled(s, request, covers2, msgs, reply) ==
    /\ s \in OpenSockets
    /\ covers' = covers2
    /\ req' = request
    /\ ack' = reply
    /\ emitted' = msgs
    /\ scheduled' = <<>>
    /\ UNCHANGED <<bmVars, flagVars, users, usersOrder, disconnectedUsers,
                   displayModeUsers, sockets, idVars, storeVars, phase>>

\* socket.on('add-cover'); data.id is a non-empty string when present,
\* x / y / width / height are numbers when present
LegacyAddCover(s, data) ==
    LET request == [op |-> "add-cover", socket |-> s]
    IN  IF data = Missing \/ ~({"x", "y", "width", "height"} \subseteq DOMAIN data)
        THEN LegacyCoverHandled(s, request, covers, <<>>, NoAck)
        ELSE /\ "id" \in DOMAIN data \/ nextCoverId <= MaxCovers
             /\ LET id == IF "id" \in DOMAIN data THEN data.id
                          ELSE generateCoverId(nextCoverId)
                    width == clampValue(data.width, 0, 100)
                    height == clampValue(data.height, 0, 100)
                    cover == [id |-> id,
                              x |-> clampValue(data.x, 0, 100 - width),
                              y |-> clampValue(data.y, 0, 100 - height),
                              width |-> width, height |-> height,
                              color |-> IF "color" \in DOMAIN data THEN data.color
                                        ELSE DEFAULT_COVER_COLOR]
                IN  /\ s \in OpenSockets
                    /\ covers' = With(covers, id, cover)
                    /\ nextCoverId' = IF "id" \in DOMAIN data THEN nextCoverId
                                      ELSE nextCoverId + 1
                    /\ req' = request
                    /\ ack' = NoAck
                    /\ emitted' = <<Msg(ToAll, "cover-added", cover)>>
                    /\ scheduled' = <<>>
                    /\ UNCHANGED <<bmVars, flagVars, users, usersOrder,
                                   disconnectedUsers, displayModeUsers, sockets,
                                   nextUuid, nextTokenId, storeVars, phase>>

\* socket.on('remove-cover')
LegacyRemoveCover(s, data) ==
    LET request == [op |-> "remove-cover", socket |-> s]
    IN  IF data = Missing \/ "id" \notin DOMAIN data \/ data.id \notin DOMAIN covers
        THEN LegacyCoverHandled(s, request, covers, <<>>, NoAck)
        ELSE LegacyCoverHandled(s, request, Without(covers, data.id),
                                <<Msg(ToAll, "cover-removed", [id |-> data.id])>>,
                                NoAck)

\* socket.on('update-cover'): the cover is stored, then the handler calls
\* io.broadcast.emit; the server object has no broadcast property, so the
\* call throws after covers.set and nothing is emitted
LegacyUpdateCover(s, data) ==
    LET request == [op |-> "update-cover", socket |-> s]
    IN  IF data = Missing \/ "id" \notin DOMAIN data \/ data.id \notin DOMAIN covers
        THEN LegacyCoverHandled(s, request, covers, <<>>, NoAck)
        ELSE LET cover == covers[data.id]
                 updates == [f \in DOMAIN data \cap {"x", "y", "width", "height", "color"} |->
                                IF f \in {"width", "height"}
                                THEN clampValue(data[f], 0, 100) ELSE data[f]]
                 merged == Spread(cover, updates)
                 maxX == 100 - merged.width
                 maxY == 100 - merged.height
                 nextCover == [merged EXCEPT !.x = clampValue(merged.x, 0, maxX),
                                             !.y = clampValue(merged.y, 0, maxY)]
             IN  LegacyCoverHandled(s, request, With(covers, data.id, nextCover),
                                    <<>>, Uncaught)

InitPayloads == loadBattlemapStateFromSupabase(OneFloorStore, TRUE, TRUE, TRUE)

TokenPayload == [color |-> "#22c55e", position |-> [x |-> 10, y |-> 10],
                 size |-> "huge", imageSrc |-> NULL]

WallCover == [id |-> "wall", x |-> 90, y |-> 10, width |-> 30, height |-> 20]

NextPayloads ==
    \/ Cardinality(DOMAIN sockets) <= 1 /\ Connection
    \/ \E s \in DOMAIN sockets, data \in {PlayerData, HostData} : UserIdentify(s, data)
    \/ \E s \in DOMAIN sockets, data \in {Missing, TokenPayload} : AddTokenEvent(s, data)
    \/ \E s \in DOMAIN sockets :
          \E data \in {Missing, [tokenId |-> s, imageSrc |-> "hero.png"]} :
              TokenImageUpdateEvent(s, data)
    \/ \E s \in DOMAIN sockets, data \in {Missing, WallCover} : LegacyAddCover(s, data)
    \/ \E s \in DOMAIN sockets, data \in {Missing, [id |-> "wall", width |-> 50]} :
          LegacyUpdateCover(s, data)
    \/ \E s \in DOMAIN sockets, data \in {Missing, [id |-> "wall"]} :
          LegacyRemoveCover(s, data)
    \/ \E s \in DOMAIN sockets, b \in {StoreId(1), 0} :
          BattlemapRename(s, b, "Crypt")

SpecPayloads == InitPayloads /\ [][NextPayloads]_vars

\* C25: no handler throws, whatever the event and the payload, a missing
\* payload included, and the last battlemap mutation received its ack.
NoHandlerThrows ==
    /\ ack # Uncaught
    /\ req.op = "battlemap:rename" => "ok" \in DOMAIN ack

----------------------------------------------------------------------------
(* SpecScoped: a battlemap with two floors, a cover on each and a cover     *)
(* whose row names no floor.  One host switches and deletes floors, adds a  *)
(* cover and deletes the battlemap.                                         *)

ScopedStore ==
    Store(<<BattlemapRow(StoreId(1), "Cave", "a.png", StoreId(2))>>,
          <<ImageRow(StoreId(2), StoreId(1), "Floor 1", "a.png", 0),
            ImageRow(StoreId(3), StoreId(1), "Floor 2", "b.png", 1)>>,
          <<CoverRow("fog", StoreId(1), StoreId(2),
                     [x |-> 10, y |-> 10, width |-> 20, height |-> 20]),
            CoverRow("web", StoreId(1), StoreId(3),
                     [x |-> 40, y |-> 40, width |-> 20, height |-> 20]),
            CoverRow("mist", StoreId(1), 0,
                     [x |-> 70, y |-> 70, width |-> 20, height |-> 20])>>)

InitScoped ==
    \E hasCoverImageId \in BOOLEAN :
        loadBattlemapStateFromSupabase(ScopedStore, TRUE, TRUE, hasCoverImageId)

NextScoped ==
    \/ DOMAIN sockets = {} /\ Connection
    \/ \E s \in DOMAIN sockets : UserIdentify(s, HostData)
    \/ \E s \in DOMAIN sockets : BattlemapGet(s, StoreId(1))
    \/ \E s \in DOMAIN sockets, f \in {StoreId(2), StoreId(3)} :
          BattlemapSetActiveImage(s, StoreId(1), f)
    \/ \E s \in DOMAIN sockets, f \in {0, StoreId(2), StoreId(3)} :
          BattlemapAddCover(s, StoreId(1), f,
                            [id |-> "ash", x |-> 5, y |-> 5, width |-> 10, height |-> 10])
    \/ \E s \in DOMAIN sockets, f \in {StoreId(2), StoreId(3)} :
          BattlemapDeleteImage(s, StoreId(1), f)
    \/ \E s \in DOMAIN sockets : BattlemapDelete(s, StoreId(1))

SpecScoped == InitScoped /\ [][NextScoped]_vars

\* C26: covers are deleted with their owner.  A delete-image of floor f that
\* is acknowledged leaves the battlemap without f and without a cover
\* scoped to f, and every cover that was scoped to another floor, or to
\* none, as it was; a battlemap:delete of b that is acknowledged leaves no
\* entry for b in maps (its floors and covers go with it) or in the order,
\* and schedules the task that deletes the covers and the row of b.
CoversDeletedWithOwner ==
    [][/\ (req'.op = "battlemap:delete-image" /\ Acked')
          => LET b == req'.battlemapId
                 f == req'.imageId
             IN  /\ getBattlemapImageById(maps'[b], f) = NoImage
                 /\ \A c \in Range(maps'[b].covers) : c.imageId # f
                 /\ \A k \in DOMAIN maps[b].covers :
                       maps[b].covers[k].imageId # f
                       => /\ k \in DOMAIN maps'[b].covers
                          /\ maps'[b].covers[k] = maps[b].covers[k]
       /\ (req'.op = "battlemap:delete" /\ Acked')
          => LET b == req'.battlemapId
             IN  /\ b \notin DOMAIN maps'
                 /\ b \notin Range(order')
                 /\ Task("delete battlemap", [battlemapId |-> b]) \in Range(scheduled')
      ]_vars

\* Floor 1 was deleted: its cover is gone, the cover of floor 2 stays
FloorDeletedWithItsCovers ==
    /\ req.op = "battlemap:delete-image"
    /\ req.imageId = StoreId(2)
    /\ Acked
    /\ supportsBattlemapCoverImageId
    /\ \A c \in Range(maps[StoreId(1)].covers) : c.id # "fog"
    /\ \E c \in Range(maps[StoreId(1)].covers) : c.id = "web" /\ c.imageId = StoreId(3)

\* The full snapshots the last handler sent: the payloads of its
\* battlemap:updated messages and the battlemap of a battlemap:get ack
FullSnapshots ==
    UNION {SnapshotsOf(emitted, b) : b \in DOMAIN maps}
      \cup (IF req.op = "battlemap:get" /\ Acked THEN {ack.battlemap} ELSE {})

\* The covers of battlemap b scoped to floor f (f = 0: to no floor), as sent
CoversScopedTo(b, f) ==
    {StripImageId(c) : c \in {c \in Range(maps[b].covers) : c.imageId = f}}

AllCoversOf(b) == {StripImageId(c) : c \in Range(maps[b].covers)}

CoversSent(snapshot) == {StripImageId(c) : c \in snapshot.covers}

----------------------------------------------------------------------------
(* SpecManual: manual tokens beside players and a host that come, go and    *)
(* remove tokens.                                                           *)

InitManual == loadBattlemapStateFromSupabase(OneFloorStore, TRUE, TRUE, TRUE)

NextManual ==
    \/ Cardinality(DOMAIN sockets) <= 1 /\ Connection
    \/ \E s \in DOMAIN sockets, data \in {PlayerData, HostData} : UserIdentify(s, data)
    \/ \E s \in DOMAIN sockets : GraceTimer(s)
    \/ \E s \in DOMAIN sockets : Disconnect(s)
    \/ \E s \in DOMAIN sockets : AddToken(s, "#22c55e", [x |-> 10, y |-> 10], "huge", NULL)
    \/ \E s \in DOMAIN sockets, p \in {"p1", PersistentTokenId(1)} : RemoveToken(s, p)

SpecManual == InitManual /\ [][NextManual]_vars

\* The numbers of the manual tokens added so far
TokensAdded == 1..(nextTokenId - 1)

\* C28: a manual token is active from the add-token that made it; every
\* step keeps it among the active users as it was, except a remove-token
\* that names its persistent id; and no ghost ever carries its persistent id.
ManualTokenStaysActive ==
    [][/\ req'.op = "add-token" /\ nextTokenId' = nextTokenId + 1
          => /\ TokenId(nextTokenId) \in DOMAIN users'
             /\ users'[TokenId(nextTokenId)].persistentUserId
                    = PersistentTokenId(nextTokenId)
       /\ \A n \in TokensAdded :
             TokenId(n) \in DOMAIN users
             => \/ /\ TokenId(n) \in DOMAIN users'
                   /\ users'[TokenId(n)] = users[TokenId(n)]
                \/ /\ req'.op = "remove-token"
                   /\ req'.persistentUserId = users[TokenId(n)].persistentUserId
       /\ \A n \in 1..(nextTokenId' - 1) :
             PersistentTokenId(n) \notin DOMAIN disconnectedUsers'
      ]_vars

\* The token outlived every connection, the one that created it included,
\* while a player became a ghost
TokenOutlivesItsCreator ==
    /\ TokenId(1) \in DOMAIN users
    /\ DOMAIN sockets # {}
    /\ OpenSockets = {}
    /\ "p1" \in DOMAIN disconnectedUsers
    /\ req.op = "disconnect"

----------------------------------------------------------------------------
(* Startup: app.prepare().then runs the load, and either exits or creates   *)
(* the server that takes connections.                                       *)

\* The result of one query: no error, or an error whose message mentions
\* the names in its set (message.includes(name) is name \in mentions)
NoError == [failed |-> FALSE, mentions |-> {}]
QueryError(mentions) == [failed |-> TRUE, mentions |-> mentions]

MissingActiveImageId == QueryError({"column", "active_image_id"})
MissingImagesTable   == QueryError({"relation", "battlemap_images"})
MissingCoverImageId  == QueryError({"column", "battlemap_image_id"})
TimedOut             == QueryError({"timeout"})

QueryResults == {NoError, MissingActiveImageId, MissingImagesTable,
                 MissingCoverImageId, TimedOut}

\* What the six queries of one load answer: the battlemaps select, its
\* retry, the seed insert, the floors select, the covers select, its retry
LoadAnswers ==
    [battlemaps : QueryResults, retry : {NoError, TimedOut},
     seed : {NoError, TimedOut}, images : QueryResults,
     covers : QueryResults, legacyCovers : {NoError, TimedOut}]

\* loadBattlemapStateFromSupabase up to its last query: the error it
\* throws, if any, and the flags it has set
LoadQueries(store, q) ==
    LET hasActiveImageId == ~q.battlemaps.failed
        hasImages == ~q.images.failed
        hasCoverImageId == ~q.covers.failed
        flags == [thrown |-> FALSE, hasImages |-> hasImages,
                  hasActiveImageId |-> hasActiveImageId,
                  hasCoverImageId |-> hasCoverImageId]
        Thrown == [flags EXCEPT !.thrown = TRUE]
    IN  IF q.battlemaps.failed /\ "active_image_id" \notin q.battlemaps.mentions
        THEN Thrown
        ELSE IF q.battlemaps.failed /\ q.retry.failed THEN Thrown
        ELSE IF store.battlemaps = <<>> /\ q.seed.failed THEN Thrown
        ELSE IF q.images.failed /\ "battlemap_images" \notin q.images.mentions
        THEN Thrown
        ELSE IF q.covers.failed /\ "battlemap_image_id" \notin q.covers.mentions
        THEN Thrown
        ELSE IF q.covers.failed /\ q.legacyCovers.failed THEN Thrown
        ELSE flags

\* The tables before the load
StoreAtStart(store) ==
    [battlemaps |-> RowsById(store.battlemaps),
     battlemap_images |-> RowsById(store.images),
     battlemap_covers |-> RowsById(store.covers)]

\* The module-level state before app.prepare() resolves
Loading(store) ==
    /\ phase = "loading"
    /\ supportsBattlemapImages = FALSE
    /\ supportsBattlemapActiveImageId = TRUE
    /\ supportsBattlemapCoverImageId = FALSE
    /\ order = <<>>
    /\ maps = EmptyMap
    /\ activeBattlemapId = 0
    /\ users = EmptyMap
    /\ usersOrder = <<>>
    /\ disconnectedUsers = EmptyMap
    /\ displayModeUsers = EmptyMap
    /\ covers = EmptyMap
    /\ sockets = EmptyMap
    /\ nextUuid = 1
    /\ nextCoverId = 1
    /\ nextTokenId = 1
    /\ req = NoReq
    /\ ack = NoAck
    /\ emitted = <<>>
    /\ scheduled = <<>>
    /\ background = <<>>
    /\ supabase = StoreAtStart(store)
    /\ response = NoResponse

\* A startup that logs the error of the load and creates the server anyway
StartupKeepsServing(store, q) ==
    /\ phase = "loading"
    /\ supabase = StoreAtStart(store)
    /\ LoadQueries(store, q).thrown
    /\ phase' = "serving"
    /\ response' = [load |-> q, thrown |-> TRUE]
    /\ UNCHANGED <<bmVars, flagVars, presenceVars, sockets, idVars, outVars,
                   background, supabase>>

\* app.prepare().then: the load runs to its end, or throws and the process
\* exits with status 1 before the server is created
Startup(store, q) ==
    /\ phase = "loading"
    /\ supabase = StoreAtStart(store)
    /\ LET load == LoadQueries(store, q)
       IN  IF load.thrown
           THEN /\ phase' = "exit 1"
                /\ response' = [load |-> q, thrown |-> TRUE]
                /\ UNCHANGED <<bmVars, flagVars, presenceVars, sockets, idVars,
                               outVars, background, supabase>>
           ELSE /\ phase' = "serving"
                /\ response' = [load |-> q, thrown |-> FALSE]
                /\ supportsBattlemapImages' = load.hasImages
                /\ supportsBattlemapActiveImageId' = load.hasActiveImageId
                /\ supportsBattlemapCoverImageId' = load.hasCoverImageId
                /\ order' = LoadedOrder(store)
                /\ maps' = LoadedMaps(store, load.hasImages, load.hasActiveImageId,
                                      load.hasCoverImageId)
                /\ activeBattlemapId' = DefaultOrFirst(order', maps')
                /\ supabase' = StoreAfterLoad(store)
                /\ UNCHANGED <<presenceVars, sockets, idVars, outVars, background>>

StartupStores == {EmptyStore, UnmigratedStore, GateStore}

InitStartup == \E store \in StartupStores : Loading(store)

NextStartup ==
    \/ \E store \in StartupStores, q \in LoadAnswers : Startup(store, q)
    \/ DOMAIN sockets = {} /\ Connection
    \/ \E s \in DOMAIN sockets, data \in {PlayerData, HostData} : UserIdentify(s, data)
    \/ \E s \in DOMAIN sockets, b \in DOMAIN maps : BattlemapGet(s, b)

SpecStartup == InitStartup /\ [][NextStartup]_vars

\* A query the load issued returned an error that is not the recognised
\* one for that query
LoadFailed(q, rowsEmpty) ==
    \/ q.battlemaps.failed /\ q.battlemaps # MissingActiveImageId
    \/ q.battlemaps = MissingActiveImageId /\ q.retry.failed
    \/ rowsEmpty /\ q.seed.failed
    \/ q.images.failed /\ q.images # MissingImagesTable
    \/ q.covers.failed /\ q.covers # MissingCoverImageId
    \/ q.covers = MissingCoverImageId /\ q.legacyCovers.failed

----------------------------------------------------------------------------
(* SpecActive: two hosts connect, create, select and delete battlemaps.     *)

InitActive ==
    \/ loadBattlemapStateFromSupabase(LegacyStore, FALSE, FALSE, FALSE)
    \/ loadBattlemapStateFromSupabase(GateStore, TRUE, TRUE, TRUE)

NextActive ==
    \/ Cardinality(DOMAIN sockets) <= 1 /\ Connection
    \/ \E s \in DOMAIN sockets : UserIdentify(s, HostData)
    \/ \E s \in DOMAIN sockets : Disconnect(s)
    \/ \E s \in DOMAIN sockets : BattlemapCreate(s, "Dungeon", "d.png")
    \/ \E s \in DOMAIN sockets, b \in DOMAIN maps \cup {UnknownId} :
          BattlemapSetActive(s, b)
    \/ \E s \in DOMAIN sockets, b \in DOMAIN maps \cup {UnknownId} :
          BattlemapDelete(s, b)

SpecActive == InitActive /\ [][NextActive]_vars

\* The ids the battlemap:active messages among msgs carry
ActiveSent(msgs) ==
    {msgs[i].payload : i \in {i \in 1..Len(msgs) : msgs[i].event = "battlemap:active"}}

\* C30: every open connection's view of the active battlemap is current
\* after each handler.  In inductive form: a connection is sent the active
\* battlemap id when it opens; a handler that changes the id sends the new
\* id to all connections; and a battlemap:active message never carries
\* another id than the one the handler leaves.
ActiveViewIsCurrent ==
    [][/\ ActiveSent(emitted') \subseteq {activeBattlemapId'}
       /\ req'.op = "connection"
          => Msg(ToSocket(req'.socket), "battlemap:active", activeBattlemapId')
               \in Range(emitted')
       /\ activeBattlemapId' # activeBattlemapId
          => Msg(ToAll, "battlemap:active", activeBattlemapId') \in Range(emitted')
      ]_vars

\* The active battlemap was deleted while two connections were open: both
\* were sent the id of the battlemap that took its place
ActiveReplacedAfterDelete ==
    /\ req.op = "battlemap:delete"
    /\ Acked
    /\ req.battlemapId = StoreId(1)
    /\ Cardinality(OpenSockets) = 2
    /\ activeBattlemapId = StoreId(2)
    /\ Msg(ToAll, "battlemap:active", StoreId(2)) \in Range(emitted)

----------------------------------------------------------------------------
(* The battlemap list as the connections hold it                            *)

\* The lists the battlemap:list messages among msgs carry, with whom they
\* were sent to
ListsSent(msgs) ==
    {<<msgs[i].to, msgs[i].payload>> :
        i \in {i \in 1..Len(msgs) : msgs[i].event = "battlemap:list"}}

\* C31: the last battlemap:list message every open connection was sent
\* equals the server's current list of summaries after each handler.  In
\* inductive form: a connection is sent the current list when it opens, a
\* handler that changes the list (its order, or the id, name or mapPath of
\* one of its battlemaps) sends the new list to all connections, and no
\* battlemap:list message carries another list than the one the handler
\* leaves.
ListViewIsCurrent ==
    [][/\ \A sent \in ListsSent(emitted') : sent[2] = BattlemapList(order', maps')
       /\ req'.op = "connection"
          => <<ToSocket(req'.socket), BattlemapList(order', maps')>>
               \in ListsSent(emitted')
       /\ BattlemapList(order', maps') # BattlemapList(order, maps)
          => <<ToAll, BattlemapList(order', maps')>> \in ListsSent(emitted')
      ]_vars

----------------------------------------------------------------------------
(* SpecGrid: a host calibrates the grid of a battlemap and changes the      *)
(* images of its floors, in the floors mode and in legacy mode.             *)

InitGrid ==
    \/ \E store \in {OneFloorStore, TwoFloorStore} :
          loadBattlemapStateFromSupabase(store, TRUE, TRUE, TRUE)
    \/ loadBattlemapStateFromSupabase(UnmigratedStore, FALSE, FALSE, FALSE)

NextGrid ==
    \/ DOMAIN sockets = {} /\ Connection
    \/ \E s \in DOMAIN sockets : UserIdentify(s, HostData)
    \/ \E s \in DOMAIN sockets, b \in DOMAIN maps : BattlemapUpdateGridData(s, b, "grid-A")
    \/ \E s \in DOMAIN sockets, b \in DOMAIN maps :
          BattlemapUpdateSettings(s, b, [gridScale |-> 2, gridOffsetX |-> 5])
    \/ \E s \in DOMAIN sockets, b \in DOMAIN maps : \E i \in ImageIdsOf(b) :
          BattlemapSetActiveImage(s, b, i)
    \/ \E s \in DOMAIN sockets, b \in DOMAIN maps : \E i \in ImageIdsOf(b) \cup {0} :
          \E path \in {"c.png", "d.png"} : BattlemapUpdateMapPath(s, b, i, path)

SpecGrid == InitGrid /\ [][NextGrid]_vars

\* The grid data or the grid settings of the battlemap are not the defaults
\* a battlemap starts with: update-grid-data or update-settings has set them
Calibrated(battlemap) ==
    \/ battlemap.gridData # DefaultGridData
    \/ battlemap.gridScale # DefaultGridScale
    \/ battlemap.gridOffsetX # DefaultGridOffsetX
    \/ battlemap.gridOffsetY # DefaultGridOffsetY

\* The floor an update-map-path request is applied to: the one it names, or
\* the active one
MapPathTarget(battlemap, request) ==
    IF request.imageId # 0 THEN request.imageId ELSE battlemap.activeImageId

\* C32: an accepted update-map-path replaces the cached grid data only when
\* it changes the image of the active floor of a battlemap that holds no
\* calibration yet; when it targets another floor, or the battlemap is
\* calibrated, the grid data, the grid scale and the grid offsets are after
\* the request what they were before it.
MapPathKeepsCalibration ==
    [][req'.op = "battlemap:update-map-path" /\ ack' = Ok
       => LET b == req'.battlemapId
          IN  \/ /\ ~Calibrated(maps[b])
                 /\ MapPathTarget(maps'[b], req') = maps'[b].activeImageId
              \/ /\ maps'[b].gridData = maps[b].gridData
                 /\ maps'[b].gridScale = maps[b].gridScale
                 /\ maps'[b].gridOffsetX = maps[b].gridOffsetX
                 /\ maps'[b].gridOffsetY = maps[b].gridOffsetY
      ]_vars

----------------------------------------------------------------------------
(* Active users and open connections, under SpecManual *)

\* C33: every entry of the active-user map that is not a manual token is
\* keyed by a connection that is open, and the handler that ran last for a
\* closed connection emitted no user-joined or user-reconnected message.
ActiveUsersAreConnected ==
    /\ \A key \in DOMAIN users \ ManualTokens : key \in OpenSockets
    /\ req.op # "none" /\ req.socket \notin OpenSockets
       => JoinMessages(emitted) = {}

\* C34: no persistent identity is active and a ghost at once: for every key
\* of the ghost map, no entry of the active-user map carries it as its
\* persistent id.
NoIdentityActiveAndGhost ==
    \A P \in DOMAIN disconnectedUsers :
        \A key \in DOMAIN users : users[key].persistentUserId # P

----------------------------------------------------------------------------
(* SpecFloorWrites: a host adds a cover and sets an image on the active     *)
(* floor, without naming it, and switches floors, while the background      *)
(* tasks of those requests wait, run and are answered by the store.         *)

InitFloorWrites == loadBattlemapStateFromSupabase(TwoFloorStore, TRUE, TRUE, TRUE)

AddCoverInBackground(s, battlemapId, coverInput) ==
    ServeInBackground(s, [op |-> "battlemap:add-cover", socket |-> s,
                          battlemapId |-> battlemapId, imageId |-> 0],
                      AddCoverOutcome(s, battlemapId, 0, coverInput))

UpdateMapPathInBackground(s, battlemapId, mapPath) ==
    ServeInBackground(s, [op |-> "battlemap:update-map-path", socket |-> s,
                          battlemapId |-> battlemapId, imageId |-> 0],
                      UpdateMapPathOutcome(s, battlemapId, 0, mapPath))

SetActiveImageInBackground(s, battlemapId, imageId) ==
    ServeInBackground(s, [op |-> "battlemap:set-active-image", socket |-> s,
                          battlemapId |-> battlemapId, imageId |-> imageId],
                      SetActiveImageOutcome(s, battlemapId, imageId))

NextFloorWrites ==
    \/ DOMAIN sockets = {} /\ Connection
    \/ \E s \in DOMAIN sockets : UserIdentify(s, HostData)
    \/ \E s \in DOMAIN sockets, b \in DOMAIN maps :
          AddCoverInBackground(s, b, Spread(CornerCover, [id |-> "wall"]))
    \/ \E s \in DOMAIN sockets, b \in DOMAIN maps :
          UpdateMapPathInBackground(s, b, "c.png")
    \/ \E s \in DOMAIN sockets, b \in DOMAIN maps : \E i \in ImageIdsOf(b) :
          SetActiveImageInBackground(s, b, i)
    \/ StartTask
    \/ \E i \in 1..Len(background) : StoreAnswers(i, FALSE, FALSE)

SpecFloorWrites == InitFloorWrites /\ [][NextFloorWrites]_vars

\* The tasks that start in this step, with the requests they have built
TasksStarting ==
    {background'[i] : i \in {i \in 1..Len(background) :
                               /\ i <= Len(background')
                               /\ ~background[i].started
                               /\ background'[i].started}}

\* C35: the floor a background task writes is the floor its handler applied
\* the request to.  When the task of an add-cover sent without floor id
\* starts, the row it upserts names the floor the cover is held under in
\* memory; when the task of an update-map-path sent without floor id
\* starts, the floor row it updates is that of the floor that was given the
\* path in memory ("c.png" is given to floors by those requests only).
PersistedUnderFloorApplied ==
    [][\A t \in TasksStarting :
          LET row == t.requests[1].row
          IN  /\ t.task.description = "upsert cover"
                 => CoverKey(row.battlemap_image_id, row.id)
                        \in DOMAIN maps[row.battlemap_id].covers
              /\ t.task.description = "update battlemap map path"
                    /\ t.requests[1].table = "battlemap_images"
                 => getBattlemapImageById(maps[t.task.args.battlemapId], row.id).mapPath
                        = row.map_path
      ]_vars

----------------------------------------------------------------------------
(* SpecEditable: the battlemap of ScopedStore, loaded with or without the   *)
(* floor column of the covers.  A host reads it, switches floors and        *)
(* updates and removes the covers its snapshot lists, naming no floor.      *)

InitEditable ==
    \E hasCoverImageId \in BOOLEAN :
        loadBattlemapStateFromSupabase(ScopedStore, TRUE, TRUE, hasCoverImageId)

\* The ids of the covers the current snapshot of battlemap b lists
ListedCoverIds(b) == {c.id : c \in Snapshot(maps[b]).covers}

NextEditable ==
    \/ DOMAIN sockets = {} /\ Connection
    \/ \E s \in DOMAIN sockets : UserIdentify(s, HostData)
    \/ \E s \in DOMAIN sockets, b \in DOMAIN maps : BattlemapGet(s, b)
    \/ \E s \in DOMAIN sockets, b \in DOMAIN maps : \E f \in ImageIdsOf(b) :
          BattlemapSetActiveImage(s, b, f)
    \/ \E s \in DOMAIN sockets, b \in DOMAIN maps : \E c \in ListedCoverIds(b) :
          BattlemapUpdateCover(s, b, c, 0, [x |-> 30])
    \/ \E s \in DOMAIN sockets, b \in DOMAIN maps : \E c \in ListedCoverIds(b) :
          BattlemapRemoveCover(s, b, c, 0)

SpecEditable == InitEditable /\ [][NextEditable]_vars

\* C36: a mutator's update-cover or remove-cover that names a battlemap and
\* the id of a cover listed in its current snapshot, and no floor, is
\* acknowledged ok:true and takes effect: the snapshot then lists the cover
\* with the updated field, respectively lists it no more.
ListedCoverIsEditable ==
    [][(/\ req'.op \in {"battlemap:update-cover", "battlemap:remove-cover"}
        /\ HoldsMutator(req'.socket)
        /\ req'.battlemapId \in DOMAIN maps
        /\ req'.imageId = 0
        /\ req'.coverId \in ListedCoverIds(req'.battlemapId))
       => LET b == req'.battlemapId
              listed == Snapshot(maps'[b]).covers
          IN  /\ ack' = Ok
              /\ req'.op = "battlemap:update-cover"
                    => \E c \in listed : c.id = req'.coverId /\ c.x = req'.updates.x
              /\ req'.op = "battlemap:remove-cover"
                    => \A c \in listed : c.id # req'.coverId
      ]_vars

----------------------------------------------------------------------------
(* SpecCoverRows: a host adds and removes covers on the two floors of the   *)
(* battlemap of ScopedStore.  Every request is sent once the background     *)
(* write of the one before it has been answered, and no write fails.        *)

InitCoverRows == loadBattlemapStateFromSupabase(ScopedStore, TRUE, TRUE, TRUE)

AddCoverOnFloor(s, battlemapId, imageId, coverInput) ==
    ServeInBackground(s, [op |-> "battlemap:add-cover", socket |-> s,
                          battlemapId |-> battlemapId, imageId |-> imageId],
                      AddCoverOutcome(s, battlemapId, imageId, coverInput))

RemoveCoverOnFloor(s, battlemapId, coverId, imageId) ==
    ServeInBackground(s, [op |-> "battlemap:remove-cover", socket |-> s,
                          battlemapId |-> battlemapId, imageId |-> imageId,
                          coverId |-> coverId],
                      RemoveCoverOutcome(s, battlemapId, coverId, imageId))

NextCoverRows ==
    \/ DOMAIN sockets = {} /\ Connection
    \/ \E s \in DOMAIN sockets : UserIdentify(s, HostData)
    \/ /\ background = <<>>
       /\ \E s \in DOMAIN sockets, b \in DOMAIN maps : \E f \in ImageIdsOf(b) :
             AddCoverOnFloor(s, b, f, [id |-> "fog", x |-> 50, y |-> 50,
                                       width |-> 10, height |-> 10])
    \/ /\ background = <<>>
       /\ \E s \in DOMAIN sockets, b \in DOMAIN maps :
             \E f \in ImageIdsOf(b), c \in {"fog", "web"} :
                RemoveCoverOnFloor(s, b, c, f)
    \/ StartTask
    \/ \E i \in 1..Len(background) : StoreAnswers(i, FALSE, FALSE)

SpecCoverRows == InitCoverRows /\ [][NextCoverRows]_vars

\* The covers battlemap b holds in memory: id, floor scope and geometry
CoversInMemory(b) ==
    {<<c.id, c.imageId, Geometry(c)>> : c \in Range(maps[b].covers)}

\* The cover rows the store holds for battlemap b
CoverRowsOf(b) ==
    {<<row.id, row.battlemap_image_id, Geometry(row)>> :
        row \in {row \in Range(supabase.battlemap_covers) : row.battlemap_id = b}}

\* C37: once every scheduled write has completed, the cover rows the store
\* holds for each battlemap are exactly the covers held in memory for it:
\* same ids, same floor scope, same geometry.
PersistedCoversConverge ==
    background = <<>> => \A b \in DOMAIN maps : CoversInMemory(b) = CoverRowsOf(b)

----------------------------------------------------------------------------
(* The order list and the battlemap map, under SpecOrder *)

\* C38: the battlemap order is a duplicate-free list that holds exactly the
\* ids that are keys of the battlemap map.
OrderListsExactlyTheBattlemaps ==
    /\ \A i, j \in 1..Len(order) : order[i] = order[j] => i = j
    /\ Range(order) = DOMAIN maps

\* A battlemap was created, the three were put in another order and one of
\* the stored battlemaps was deleted: the created one is listed first
CreatedListedFirstAfterDelete ==
    /\ req.op = "battlemap:delete"
    /\ Acked
    /\ req.battlemapId \in {StoreId(1), StoreId(2)}
    /\ Len(order) = 2
    /\ order[1] \notin {StoreId(1), StoreId(2)}

----------------------------------------------------------------------------
(* SpecSelect: three stored battlemaps, the last one on the default map     *)
(* path, or an empty store.  A host creates, selects and deletes            *)
(* battlemaps and changes their images.                                     *)

SelectStore ==
    Store(<<BattlemapRow(StoreId(1), "Cave", "a.png", 0),
            BattlemapRow(StoreId(2), "Keep", NULL, 0),
            BattlemapRow(StoreId(3), DEFAULT_BATTLEMAP_NAME,
                         DEFAULT_BATTLEMAP_MAP_PATH, 0)>>, <<>>, <<>>)

InitSelect ==
    \E store \in {SelectStore, EmptyStore}, migrated \in BOOLEAN :
        loadBattlemapStateFromSupabase(store, migrated, migrated, migrated)

NextSelect ==
    \/ DOMAIN sockets = {} /\ Connection
    \/ \E s \in DOMAIN sockets : UserIdentify(s, HostData)
    \/ \E s \in DOMAIN sockets : BattlemapCreate(s, "Dungeon", "d.png")
    \/ \E s \in DOMAIN sockets, b \in DOMAIN maps \cup {UnknownId} :
          BattlemapSetActive(s, b)
    \/ \E s \in DOMAIN sockets, b \in DOMAIN maps \cup {UnknownId} :
          BattlemapDelete(s, b)
    \/ \E s \in DOMAIN sockets, b \in DOMAIN maps :
          BattlemapUpdateMapPath(s, b, 0, "c.png")

SpecSelect == InitSelect /\ [][NextSelect]_vars

\* The positions in the order ord of the battlemaps on the default map path
DefaultPositions(ord, m) ==
    {i \in 1..Len(ord) : m[ord[i]].mapPath = DEFAULT_BATTLEMAP_MAP_PATH}

\* C39: the active battlemap id is null or the id of an existing battlemap,
\* and null only when no battlemap exists; a delete of the active battlemap
\* selects the first battlemap in order on the default map path if there is
\* one, otherwise the first in order, otherwise null; a create while no
\* battlemap is active makes the new battlemap the active one.
ActiveBattlemapExists ==
    /\ [](/\ activeBattlemapId # 0 => activeBattlemapId \in DOMAIN maps
          /\ activeBattlemapId = 0 => DOMAIN maps = {})
    /\ [][/\ (/\ req'.op = "battlemap:delete"
              /\ Acked'
              /\ req'.battlemapId = activeBattlemapId)
             => LET positions == DefaultPositions(order', maps')
                IN  activeBattlemapId' =
                       IF positions # {}
                       THEN order'[CHOOSE i \in positions :
                                      \A j \in positions : i <= j]
                       ELSE IF order' # <<>> THEN order'[1] ELSE 0
          /\ (req'.op = "battlemap:create" /\ Acked' /\ activeBattlemapId = 0)
             => activeBattlemapId' = ack'.battlemapId
         ]_vars

\* The active battlemap, first in order, was deleted: the battlemap on the
\* default map path took its place, not the one that is now first in order
DefaultSelectedAfterDelete ==
    /\ req.op = "battlemap:delete"
    /\ Acked
    /\ req.battlemapId = StoreId(1)
    /\ order = <<StoreId(2), StoreId(3)>>
    /\ activeBattlemapId = StoreId(3)
    /\ ack = Ok
    /\ Msg(ToAll, "battlemap:active", StoreId(3)) \in Range(emitted)

----------------------------------------------------------------------------
(* SpecCrossed: the floor operations of Spec on top of a store whose        *)
(* battlemap "Cave" names as its active floor a floor row of battlemap      *)
(* "Keep" (battlemaps_active_image_id_fkey asks for a row of                *)
(* battlemap_images, of whatever battlemap).                                *)

CrossedStore ==
    Store(<<BattlemapRow(StoreId(1), "Cave", "a.png", StoreId(4)),
            BattlemapRow(StoreId(2), "Keep", "k.png", StoreId(4))>>,
          <<ImageRow(StoreId(3), StoreId(1), "Floor 1", "a.png", 0),
            ImageRow(StoreId(4), StoreId(2), "Floor 1", "k.png", 0)>>, <<>>)

InitCrossed == loadBattlemapStateFromSupabase(CrossedStore, TRUE, TRUE, TRUE)

SpecCrossed == InitCrossed /\ [][Next]_vars

\* C40: with the floors table present, the active floor id of every
\* battlemap whose floor list is not empty is the id of one of its floors.
ActiveFloorIsListed ==
    supportsBattlemapImages
    => \A b \in DOMAIN maps :
          maps[b].images # <<>> => maps[b].activeImageId \in ImageIdsOf(b)

====
